---- MODULE Spec2Model ----
(***************************************************************************)
(* TTVideoMaker: the hashtag scrape -> download -> verify -> edit ->       *)
(* ledger pipeline of main.py / scraper.py / editor.py / utils.py.         *)
(*                                                                         *)
(* External collaborators (browser, yt-dlp, ffprobe, ffmpeg, the file      *)
(* system under the ledger) are nondeterministic: every outcome for which  *)
(* the code has a branch or an except clause is an input of the action     *)
(* that makes the call.  Directory creation (os.makedirs(..., exist_ok)) is *)
(* taken to succeed.  LOG messages below level CRITICAL and STATUS_UPDATE  *)
(* messages only feed the display and are not kept in log_queue.           *)
(*                                                                         *)
(* Spec is the whole program: GUI, worker thread, runs one after another.  *)
(* In it os.remove is taken to succeed: a file the clean-up leaves behind  *)
(* is read by no later step, and the one control path a failing os.remove  *)
(* opens (an exception out of edit_video) is already there for the probe   *)
(* timeout.  SpecItem is one item taken through download_video and the     *)
(* body of the edit loop from any state of its files, with every outcome   *)
(* of every call, os.remove included.  SpecLedger is a client of utils.py. *)
(***************************************************************************)
EXTENDS Integers, Sequences, FiniteSets, TLC

\* ---------------------------------------------------------------- bounds
\* longest element list one find_elements call returns
MaxElems == 2
\* largest "number of NEW videos" the user enters
MaxN == 2
\* number of runs (Start button presses that start a worker)
MaxRuns == 2
\* number of successful appends the ledger client makes
MaxAppends == 3
\* number of messages other than the closing ones the queue's producer puts
MaxPuts == 1

\* ------------------------------------------------------ program constants
\* get_video_id_from_url: len(part) > 15
MinIdLen == 15
\* get_video_links_from_tiktok(..., scroll_pauses=5, ...)
ScrollPauses == 5

\* ------------------------------------------------------------- vocabulary
None == "None"
NL == "\n"
SP == " "
\* the videos the listing page can show
VideoIds == {"7000000000000000001", "7000000000000000002"}
\* a file on disk: missing, zero bytes, or with content
FileStates == {"absent", "empty", "data"}
Range(s) == { s[k] : k \in 1..Len(s) }

\* ======================================================== utils.py: ledger
\* The ledger file is text: a sequence of chunks, each an id, a newline or
\* a blank.  Python's "for line in f" yields each line with its terminator.
RECURSIVE SplitLines(_, _)
SplitLines(text, cur) ==
  IF text = << >> THEN (IF cur = << >> THEN << >> ELSE << cur >>)
  ELSE IF Head(text) = NL
       THEN << Append(cur, NL) >> \o SplitLines(Tail(text), << >>)
       ELSE SplitLines(Tail(text), Append(cur, Head(text)))

IsSpace(c) == c \in {NL, SP}

RECURSIVE LStrip(_)
LStrip(line) ==
  IF line # << >> /\ IsSpace(Head(line)) THEN LStrip(Tail(line)) ELSE line

RECURSIVE RStrip(_)
RStrip(line) ==
  IF line # << >> /\ IsSpace(line[Len(line)])
  THEN RStrip(SubSeq(line, 1, Len(line) - 1)) ELSE line

\* str.strip()
Strip(line) == RStrip(LStrip(line))

\* faulty variant: a load that lets the read error out
get_processed_videos_Raising(exists, text, read_ok) ==
  IF ~exists THEN [raised |-> FALSE, ids |-> {}]
  ELSE IF read_ok
       THEN [raised |-> FALSE,
             ids |-> { Strip(l) : l \in { m \in Range(SplitLines(text, << >>)) :
                                           Strip(m) # << >> } }]
       ELSE [raised |-> TRUE, ids |-> {}]

\* get_processed_videos (utils.py:12-26): exists = os.path.exists(filepath); read_ok = the
\* open/read inside the try did not raise.  raised = an exception leaves
\* the function.
get_processed_videos(exists, text, read_ok) ==
  IF ~exists THEN [raised |-> FALSE, ids |-> {}]
  ELSE IF read_ok
       THEN [raised |-> FALSE,
             ids |-> { Strip(l) : l \in { m \in Range(SplitLines(text, << >>)) :
                                           Strip(m) # << >> } }]
       ELSE [raised |-> FALSE, ids |-> {}]

\* the text of an id as one stripped line holds it
Line(video_id) == << video_id >>

\* faulty variant: a check that never finds the id
is_video_processed_Never(video_id, exists, text, read_ok) == FALSE

\* is_video_processed
is_video_processed(video_id, exists, text, read_ok) ==
  Line(video_id) \in get_processed_videos(exists, text, read_ok).ids

\* faulty variant: the file opened in mode "w"
add_processed_video_Truncating(video_id, exists, text, write_ok) ==
  IF write_ok
  THEN [ok |-> TRUE, exists |-> TRUE, text |-> << video_id, NL >>]
  ELSE [ok |-> FALSE, exists |-> exists, text |-> text]

\* faulty variant: the id written without its newline
add_processed_video_NoNewline(video_id, exists, text, write_ok) ==
  IF write_ok
  THEN [ok |-> TRUE, exists |-> TRUE,
        text |-> (IF exists THEN text ELSE << >>) \o << video_id >>]
  ELSE [ok |-> FALSE, exists |-> exists, text |-> text]

\* faulty variant: a failed write that leaves the file emptied
add_processed_video_FailTruncates(video_id, exists, text, write_ok) ==
  IF write_ok
  THEN [ok |-> TRUE, exists |-> TRUE,
        text |-> (IF exists THEN text ELSE << >>) \o << video_id, NL >>]
  ELSE [ok |-> FALSE, exists |-> TRUE, text |-> << >>]

\* faulty variant: a failed append that has written its line all the same
add_processed_video_FailWrites(video_id, exists, text, write_ok) ==
  [ok |-> write_ok, exists |-> TRUE,
   text |-> (IF exists THEN text ELSE << >>) \o << video_id, NL >>]

\* add_processed_video: write_ok = makedirs/open/write did not raise.
\* Returns [ok, exists, text]: the return value and the file afterwards.
add_processed_video(video_id, exists, text, write_ok) ==
  IF write_ok
  THEN [ok |-> TRUE, exists |-> TRUE,
        text |-> (IF exists THEN text ELSE << >>) \o << video_id, NL >>]
  ELSE [ok |-> FALSE, exists |-> exists, text |-> text]

\* ids a successful load of the file yields
LedgerIds(exists, text) == get_processed_videos(exists, text, TRUE).ids

\* ================================================= scraper.py: discovery
\* A URL is the list urlparse(url).path.split('/') yields; a part carries
\* its text and what str.isdigit() and len() say of it.
Seg(text, isdigit, len) == [text |-> text, isdigit |-> isdigit, len |-> len]

\* https://www.tiktok.com/@user/video/<id>
VideoUrl(id) ==
  << Seg("", FALSE, 0), Seg("@user", FALSE, 5), Seg("video", FALSE, 5),
     Seg(id, TRUE, 19) >>
\* a /video/ link whose number is too short to be a content id
ShortUrl ==
  << Seg("", FALSE, 0), Seg("@user", FALSE, 5), Seg("video", FALSE, 5),
     Seg("12345", TRUE, 5) >>

\* an anchor element: get_attribute('href') raises (stale), returns None,
\* or returns a URL
Elem(stale, has_href, url) == [stale |-> stale, has_href |-> has_href, url |-> url]
Elements ==
  { Elem(FALSE, TRUE, VideoUrl(id)) : id \in VideoIds }
    \cup { Elem(FALSE, TRUE, ShortUrl), Elem(FALSE, FALSE, << >>),
           Elem(TRUE, FALSE, << >>) }

\* '/video/' in video_url
HasVideoPath(url) == \E k \in 1..Len(url) : url[k].text = "video"

\* get_video_id_from_url: the last part that is all digits and longer
\* than MinIdLen, else None
RECURSIVE get_video_id_from_url(_)
get_video_id_from_url(url) ==
  IF url = << >> THEN None
  ELSE LET part == url[Len(url)] IN
       IF part.isdigit /\ part.len > MinIdLen THEN part.text
       ELSE get_video_id_from_url(SubSeq(url, 1, Len(url) - 1))

\* faulty variant: the pass without the ledger check of scraper.py:160
ScanElement_NoLedgerCheck(e, read_ok, list, found, n, exists, text) ==
  LET video_id == IF e.stale \/ ~e.has_href \/ ~HasVideoPath(e.url)
                  THEN None ELSE get_video_id_from_url(e.url)
  IN IF video_id # None /\ video_id \notin found
     THEN [list |-> Append(list, << video_id, e.url >>),
           found |-> found \cup {video_id},
           brk |-> Len(list) + 1 >= n]
     ELSE [list |-> list, found |-> found, brk |-> FALSE]

\* faulty variant: the pass without the check against found_video_ids
ScanElement_NoFoundCheck(e, read_ok, list, found, n, exists, text) ==
  LET video_id == IF e.stale \/ ~e.has_href \/ ~HasVideoPath(e.url)
                  THEN None ELSE get_video_id_from_url(e.url)
  IN IF video_id # None
        /\ ~is_video_processed(video_id, exists, text, read_ok)
     THEN [list |-> Append(list, << video_id, e.url >>),
           found |-> found \cup {video_id},
           brk |-> Len(list) + 1 >= n]
     ELSE [list |-> list, found |-> found, brk |-> FALSE]

\* One pass of the "for element in video_elements" loop of
\* get_video_links_from_tiktok (scraper.py:154-169) on element e.  read_ok =
\* the ledger read inside is_video_processed did not raise.  brk = the loop
\* is left by its break.
ScanElement(e, read_ok, list, found, n, exists, text) ==
  LET video_id == IF e.stale \/ ~e.has_href \/ ~HasVideoPath(e.url)
                  THEN None ELSE get_video_id_from_url(e.url)
  IN IF video_id # None /\ video_id \notin found
        /\ ~is_video_processed(video_id, exists, text, read_ok)
     THEN [list |-> Append(list, << video_id, e.url >>),
           found |-> found \cup {video_id},
           brk |-> Len(list) + 1 >= n]
     ELSE [list |-> list, found |-> found, brk |-> FALSE]

\* ================================================ scraper.py: download
\* A path is what os.path.join is given: the directory, then the parts of
\* the file name.
\* scraper.py:193, os.path.join(VIDEOS_DOWNLOAD_DIR, f"{video_id}.mp4")
filepath(video_id) == << "videos", video_id, ".mp4" >>

\* faulty variant: the edit written over its source
output_video_path_InPlace(video_id) == << "videos", video_id, ".mp4" >>

\* editor.py:43-44, os.path.join(EDITED_VIDEOS_DIR, f"{video_id}_edited_ffmpeg.mp4")
output_video_path(video_id) == << "edited_videos", video_id, "_edited_ffmpeg.mp4" >>

\* what one yt-dlp run does: exit status, the file it leaves at the
\* destination path, and whether communicate(timeout=120) expired
\* (a run killed on timeout has a non-zero status)
FetchOutcomes ==
  { fo \in [rc : {0, 1}, file : FileStates, timeout : BOOLEAN] :
      fo.timeout => fo.rc = 1 }
\* what the integrity probe does: codec printed with exit 0, no codec or a
\* non-zero exit, communicate(timeout=30) expired, another exception
VerifyOutcomes == {"ok", "bad", "timeout", "error"}

\* a log_queue item
Msg(tag, text, level) ==
  [tag |-> tag, text |-> text, level |-> level, edited |-> 0, total |-> 0,
   failed |-> 0]

\* faulty variant: the handler returning the path, as the ffprobe one does
FetcherMissing_ReturnsPath(video_id, before) ==
  [ret |-> video_id, file |-> before, fetch |-> "missing", verify |-> "none",
   logs |-> << Msg("LOG", "yt-dlp not found", "CRITICAL"),
               Msg("LOG", "pip install yt-dlp", "CRITICAL") >>]

\* download_video's "except FileNotFoundError" (scraper.py:273-276): Popen
\* found no yt-dlp; nothing was written
FetcherMissing(video_id, before) ==
  [ret |-> None, file |-> before, fetch |-> "missing", verify |-> "none",
   logs |-> << Msg("LOG", "yt-dlp not found", "CRITICAL"),
               Msg("LOG", "pip install yt-dlp", "CRITICAL") >>]

\* faulty variant: the handler failing the item and removing the file
VerifierMissing_Fails(video_id) ==
  [ret |-> None, file |-> "absent", fetch |-> "ok", verify |-> "missing",
   logs |-> << Msg("LOG", "ffprobe not found", "CRITICAL") >>]

\* download_video's inner "except FileNotFoundError" (scraper.py:240-243):
\* Popen found no ffprobe; the file yt-dlp wrote is returned unverified
VerifierMissing(video_id) ==
  [ret |-> video_id, file |-> "data", fetch |-> "ok", verify |-> "missing",
   logs |-> << Msg("LOG", "ffprobe not found", "CRITICAL") >>]

\* faulty variant: a clean-up that removes nothing
Removed_Never(file, rm_ok) == file

\* os.remove(path) under "if os.path.exists(path)": the file afterwards.
\* rm_ok = os.remove does not raise.
Removed(file, rm_ok) == IF file # "absent" /\ rm_ok THEN "absent" ELSE file

\* faulty variant: the clean-up that removes only a zero-size file
RemovesFailedDownload_OnlyEmpty(fo) == fo.file = "empty"

\* scraper.py:257, the files the failure branch removes: "os.path.getsize
\* (filepath) == 0 or process.returncode != 0" (os.path.exists is in Removed)
RemovesFailedDownload(fo) == fo.file = "empty" \/ fo.rc # 0

\* faulty variant: the success test without the checks of the file
FetchSucceeded_ExitOnly(fo) == fo.rc = 0

\* scraper.py:212, the success test after yt-dlp returns
FetchSucceeded(fo) == fo.rc = 0 /\ fo.file = "data"

\* download_video.  processed = the re-check utils.is_video_processed;
\* have_ytdlp / have_ffprobe = the tool is on PATH; before = the file at
\* videos/<id>.mp4 before the call.  Yields the return value (the path is
\* written as the id), the file afterwards, the tools invoked and the
\* CRITICAL log lines.  Every os.remove here sits in a try that logs the
\* OSError and goes on.
download_video(video_id, processed, have_ytdlp, have_ffprobe, before, fo, vo, rm_ok) ==
  IF processed
  THEN [ret |-> None, file |-> before, fetch |-> "skipped", verify |-> "none",
        logs |-> << >>]
  ELSE IF ~have_ytdlp
  THEN FetcherMissing(video_id, before)
  ELSE IF fo.timeout
  THEN [ret |-> None, file |-> Removed(fo.file, rm_ok), fetch |-> "timeout",
        verify |-> "none", logs |-> << >>]
  ELSE IF FetchSucceeded(fo)
  THEN IF ~have_ffprobe
       THEN VerifierMissing(video_id)
       ELSE IF vo = "ok"
       THEN [ret |-> video_id, file |-> "data", fetch |-> "ok", verify |-> "ok",
             logs |-> << >>]
       ELSE [ret |-> None, file |-> Removed("data", rm_ok), fetch |-> "ok",
             verify |-> vo, logs |-> << >>]
  ELSE [ret |-> None,
        file |-> IF RemovesFailedDownload(fo)
                 THEN Removed(fo.file, rm_ok) ELSE fo.file,
        fetch |-> "failed", verify |-> "none", logs |-> << >>]

\* ==================================================== editor.py: edit
\* the geometry probe: "WxH" with exit 0, a non-zero exit, output that is
\* not "WxH", communicate(timeout=10) expired
ProbeOutcomes == {"ok", "nonzero", "unparsable", "timeout"}
\* one ffmpeg run: exit status, the file it leaves at the output path,
\* whether communicate(timeout=120) expired
EncodeOutcomes ==
  { eo \in [rc : {0, 1}, file : FileStates, timeout : BOOLEAN] :
      eo.timeout => eo.rc = 1 }

\* faulty variant: check_ffmpeg that finds ffmpeg whether it is there or not
check_ffmpeg_Always(on_path) == TRUE

\* check_ffmpeg: shutil.which("ffmpeg") is not None
check_ffmpeg(on_path) == on_path

\* faulty variant: the success test without the checks of the output file
EncodeSucceeded_ExitOnly(eo) == eo.rc = 0

\* editor.py:126, the success test after ffmpeg returns
EncodeSucceeded(eo) == eo.rc = 0 /\ eo.file = "data"

\* faulty variant: a geometry probe that runs whether ffprobe is there or not
ProbeMissing_Never(have_ffprobe) == FALSE

\* editor.py:63: Popen(["ffprobe", ...]) raises FileNotFoundError when
\* ffprobe is not on PATH
ProbeMissing(have_ffprobe) == ~have_ffprobe

\* edit_video.  input = the file at input_video_path; before = the file at
\* edited_videos/<id>_edited_ffmpeg.mp4 before the call; rm_ok = os.remove
\* does not raise.  raised = an exception leaves the function: the
\* TimeoutExpired handler reads the local "process", which is unbound when
\* the geometry probe timed out, and its os.remove is in no try.  alive =
\* the tools edit_video started that it neither waited for nor killed.
edit_video(video_id, have_ffmpeg, have_ffprobe, input, before, po, eo, rm_ok) ==
  IF ~check_ffmpeg(have_ffmpeg)
  THEN [ret |-> None, raised |-> FALSE, out |-> before, probe |-> "none",
        encode |-> "none", alive |-> {},
        logs |-> << Msg("LOG", "FFmpeg not found", "CRITICAL"),
                    Msg("LOG", "Download FFmpeg", "CRITICAL") >>]
  ELSE IF input = "absent"
  THEN [ret |-> None, raised |-> FALSE, out |-> before, probe |-> "none",
        encode |-> "none", alive |-> {}, logs |-> << >>]
  ELSE IF ProbeMissing(have_ffprobe)
  THEN \* Popen raises FileNotFoundError: "except Exception" removes the output
       [ret |-> None, raised |-> FALSE, out |-> Removed(before, rm_ok),
        probe |-> "missing", encode |-> "none", alive |-> {}, logs |-> << >>]
  ELSE IF po = "timeout"
  THEN [ret |-> None, raised |-> TRUE, out |-> before, probe |-> "timeout",
        encode |-> "none", alive |-> {"ffprobe"}, logs |-> << >>]
  ELSE IF po # "ok"
  THEN [ret |-> None, raised |-> FALSE, out |-> before, probe |-> po,
        encode |-> "none", alive |-> {}, logs |-> << >>]
  ELSE IF eo.timeout
  THEN [ret |-> None, raised |-> eo.file # "absent" /\ ~rm_ok,
        out |-> Removed(eo.file, rm_ok), probe |-> "ok",
        encode |-> "timeout", alive |-> {}, logs |-> << >>]
  ELSE IF EncodeSucceeded(eo)
  THEN [ret |-> video_id, raised |-> FALSE, out |-> eo.file, probe |-> "ok",
        encode |-> "ok", alive |-> {}, logs |-> << >>]
  ELSE [ret |-> None, raised |-> FALSE, out |-> Removed(eo.file, rm_ok),
        probe |-> "ok", encode |-> "failed", alive |-> {}, logs |-> << >>]

\* ------------------------------------------ editor.py: the filter chain
\* Python's float is IEEE-754 binary64: 53 significant bits, every
\* operation rounded to nearest, ties to even
FloatPrecision == 53

\* A positive float is [top, mid, lo, exp]: its FloatPrecision significant
\* bits in three parts (top the first 17, at least 2^16; mid and lo 18
\* each), read as the integer top * Part^2 + mid * Part + lo and scaled by
\* 2^exp.
RECURSIVE Pow2(_)
Pow2(k) == IF k <= 0 THEN 1 ELSE 2 * Pow2(k - 1)
Part == Pow2((FloatPrecision - 17) \div 2)
\* number of bits of n
RECURSIVE BitLen(_)
BitLen(n) == IF n = 0 THEN 0 ELSE 1 + BitLen(n \div 2)
\* the k with d <= p * 2^k < 2 * d, for 0 < p < d
RECURSIVE Shift(_, _)
Shift(p, d) == IF p >= d THEN 0 ELSE 1 + Shift(2 * p, d)

\* round to nearest, ties to even: the parts as computed, given whether
\* what was cut off is more than, or exactly, half a unit of lo
Rounded(top, mid, lo, exp, above_half, half) ==
  IF ~(above_half \/ (half /\ lo % 2 = 1))
  THEN [top |-> top, mid |-> mid, lo |-> lo, exp |-> exp]
  ELSE IF lo + 1 < Part
  THEN [top |-> top, mid |-> mid, lo |-> lo + 1, exp |-> exp]
  ELSE IF mid + 1 < Part
  THEN [top |-> top, mid |-> mid + 1, lo |-> 0, exp |-> exp]
  ELSE IF top + 1 < Pow2(17)
  THEN [top |-> top + 1, mid |-> 0, lo |-> 0, exp |-> exp]
  ELSE [top |-> Pow2(16), mid |-> 0, lo |-> 0, exp |-> exp + 1]

\* p / d in floats, for integers 0 < p < d < 2^14 (both exact as floats):
\* the quotient by long division, part by part, then rounded
true_div(p, d) ==
  LET k == Shift(p, d)
      n0 == p * Pow2(k) * Pow2(16)
      n1 == (n0 % d) * Part
      n2 == (n1 % d) * Part
      rem == n2 % d
  IN Rounded(n0 \div d, n1 \div d, n2 \div d, 0 - k - (FloatPrecision - 1),
             2 * rem > d, 2 * rem = d)

\* w * x in floats, for an integer 1 <= w < 2^13 (exact as a float) and a
\* float x: the exact product, part by part with carries, cut to
\* FloatPrecision bits and rounded
float_mul(w, x) ==
  LET a == x.lo * w
      b == x.mid * w + a \div Part
      c == x.top * w + b \div Part
      s == BitLen(c) - 17
      cut == Pow2(s)
      keep == Part \div cut
      dropped == (a % Part) % cut
  IN Rounded(c \div cut,
             (c % cut) * keep + (b % Part) \div cut,
             ((b % Part) % cut) * keep + (a % Part) \div cut,
             x.exp + s,
             s >= 1 /\ 2 * dropped > cut,
             s >= 1 /\ 2 * dropped = cut)

\* int(x) for a positive float x below 2^17: the fraction cut off
int(x) ==
  IF 0 - x.exp >= FloatPrecision THEN 0
  ELSE x.top \div Pow2(0 - x.exp - 2 * ((FloatPrecision - 17) \div 2))

\* editor.py:88-89, int(original_width * (crop_percent / 100.0)), on the
\* branch where 0 < crop_percent < 50
crop_each_side(original, crop_percent) ==
  int(float_mul(original, true_div(crop_percent, 100)))

\* faulty variant: an odd size is passed on as it is
EvenDown_Keep(n) == n

\* faulty variant: an odd size is rounded up to the next even number
EvenDown_Up(n) == IF n % 2 = 0 THEN n ELSE n + 1

\* editor.py:97-98, "out_w if out_w % 2 == 0 else out_w - 1"
EvenDown(n) == IF n % 2 = 0 THEN n ELSE n - 1

\* faulty variant: the size test that looks at the width only
ValidOutput_WidthOnly(out_w, out_h) == out_w > 0

\* editor.py:99, the negation of "if out_w <= 0 or out_h <= 0"
ValidOutput(out_w, out_h) == ~(out_w <= 0 \/ out_h <= 0)

\* editor.py:46-50, the edits used when the caller gives none
DefaultEdits == [mirror |-> TRUE, crop_percent |-> 2]

\* a stage of the -vf chain: its name and the numbers after "="
Filter(name, args) == [name |-> name, args |-> args]

\* editor.py:77-104: video_filters for a source of the given size and the
\* edits dict [mirror, crop_percent]
video_filters(width, height, e) ==
  LET flip == IF e.mirror THEN << Filter("hflip", << >>) >> ELSE << >>
      crop_percent == e.crop_percent
  IN IF crop_percent > 0 /\ crop_percent < 50
     THEN LET crop_w_each_side == crop_each_side(width, crop_percent)
              crop_h_each_side == crop_each_side(height, crop_percent)
              out_w == EvenDown(width - (2 * crop_w_each_side))
              out_h == EvenDown(height - (2 * crop_h_each_side))
          IN IF ValidOutput(out_w, out_h)
             THEN Append(flip, Filter("crop", << out_w, out_h, crop_w_each_side,
                                                crop_h_each_side >>))
             ELSE flip
     ELSE flip

\* ------------------------------------------------- outcomes that are read
\* An outcome is drawn only where the code gets to the call that has it;
\* elsewhere one fixed value stands for "not called".
ReadOutcomes(exists) == IF exists THEN BOOLEAN ELSE {TRUE}
FetchChoices(processed, have_ytdlp) ==
  IF ~processed /\ have_ytdlp THEN FetchOutcomes
  ELSE {[rc |-> 1, file |-> "absent", timeout |-> FALSE]}
VerifyChoices(processed, have_ytdlp, have_ffprobe, fo) ==
  IF ~processed /\ have_ytdlp /\ have_ffprobe /\ ~fo.timeout
     /\ fo.rc = 0 /\ fo.file = "data"
  THEN VerifyOutcomes ELSE {"ok"}
ProbeChoices(have_ffmpeg, have_ffprobe, input) ==
  IF check_ffmpeg(have_ffmpeg) /\ ~ProbeMissing(have_ffprobe) /\ input # "absent"
  THEN ProbeOutcomes ELSE {"ok"}
EncodeChoices(have_ffmpeg, have_ffprobe, input, po) ==
  IF check_ffmpeg(have_ffmpeg) /\ ~ProbeMissing(have_ffprobe) /\ input # "absent"
     /\ po = "ok"
  THEN EncodeOutcomes ELSE {[rc |-> 1, file |-> "absent", timeout |-> FALSE]}
\* os.remove has an outcome where the call is reached with a file there
DownloadRemoveChoices(video_id, processed, have_ytdlp, have_ffprobe, before, fo, vo) ==
  IF download_video(video_id, processed, have_ytdlp, have_ffprobe, before, fo, vo, TRUE)
     # download_video(video_id, processed, have_ytdlp, have_ffprobe, before, fo, vo, FALSE)
  THEN BOOLEAN ELSE {TRUE}
EditRemoveChoices(video_id, have_ffmpeg, have_ffprobe, input, before, po, eo) ==
  IF edit_video(video_id, have_ffmpeg, have_ffprobe, input, before, po, eo, TRUE)
     # edit_video(video_id, have_ffmpeg, have_ffprobe, input, before, po, eo, FALSE)
  THEN BOOLEAN ELSE {TRUE}

\* ================================================================ state
VARIABLES
  \* data/processed_videos.txt
  ledger_exists, ledger_text,
  \* tools on PATH
  ytdlp_installed, ffprobe_installed, ffmpeg_installed,
  \* videos/<id>.mp4 and edited_videos/<id>_edited_ffmpeg.mp4, per id
  videos, edited,
  \* App: is_scraping, stop_event, log_queue; the window still exists
  is_scraping, stop_event, log_queue, gui_alive,
  \* the worker thread: where it is, and its locals
  \* (elems_left: elements of the current find_elements result not yet scanned)
  pc, num_videos_to_find, driver, scroll_i, elems_left, video_info_list,
  found_video_ids, dl_i, processed_video_details, edit_i, edited_count, failed_edits,
  \* history of the current run: runs started so far, the ledger file when
  \* the run started, the tool calls and ledger appends made (in order) and
  \* the terminal message put on the queue, and the ledger checks that
  \* failed open
  run_count, run_start, events, terminal, failopen,
  \* the ledger client (SpecLedger): its last call of the ledger API, and
  \* the ids whose add_processed_video returned True, in call order
  last_call, client_adds,
  \* one item taken through its stages (SpecItem): the last stage call made
  \* for it, with what it was given and what it left
  last_stage,
  \* the message queue between worker and window (SpecQueue): every item
  \* put so far and every item process_log_queue has handled, in order;
  \* process_log_queue is in its loop; workers that have put their terminal
  \* message and not yet the closing line of their finally clause
  emitted, handled, polling, finishing,
  \* the window's progress bar ("empty" after set(0), "full" after set(1),
  \* "progress" after a value from the worker), and how the last press of
  \* the start button ended ("started", "refused", or "none" before any)
  progress_bar, request,
  \* the filter chain of one edit_video call (SpecCrop): the size the
  \* geometry probe printed, the edits argument, and the chain built
  original_width, original_height, edits, vf, vf_built

ledger_vars == << ledger_exists, ledger_text >>
env_vars == << ytdlp_installed, ffprobe_installed, ffmpeg_installed >>
file_vars == << videos, edited >>
gui_vars == << is_scraping, stop_event, log_queue, gui_alive >>
scan_vars == << scroll_i, elems_left, video_info_list, found_video_ids >>
dl_vars == << dl_i, processed_video_details >>
edit_vars == << edit_i, edited_count, failed_edits >>
hist_vars == << run_count, run_start, events, terminal, failopen >>
bar_vars == << progress_bar, request >>
queue_vars == << emitted, handled, polling, finishing, bar_vars >>
crop_vars == << original_width, original_height, edits, vf, vf_built >>
client_vars == << last_call, client_adds, last_stage, queue_vars, crop_vars >>
worker_vars ==
  << pc, num_videos_to_find, driver, scan_vars, dl_vars, edit_vars, hist_vars >>
vars ==
  << ledger_vars, env_vars, file_vars, gui_vars, pc, num_videos_to_find, driver,
     scan_vars, dl_vars, edit_vars, hist_vars, client_vars >>

\* a history entry: a download_video call, an edit_video call or a ledger
\* append, for which id, how it ended, and the file it left at its path
Ev(ev, id, res, file) == [ev |-> ev, id |-> id, res |-> res, file |-> file]
\* a ledger check that answered False because the read raised, though the
\* id is in the file
FailOpen(stage, id) == [stage |-> stage, id |-> id]
MissedBy(video_id, exists, text, read_ok) ==
  /\ ~is_video_processed(video_id, exists, text, read_ok)
  /\ is_video_processed(video_id, exists, text, TRUE)
NoStage ==
  [stage |-> "none", id |-> None, ret |-> None, raised |-> FALSE,
   fetch |-> "none", verify |-> "none", probe |-> "none", encode |-> "none",
   alive |-> {}, input |-> "absent", input_after |-> "absent",
   before |-> "absent", after |-> "absent", rm_ok |-> TRUE, committed |-> FALSE,
   ledger_before |-> {}, ledger_after |-> {},
   fo |-> [rc |-> 1, file |-> "absent", timeout |-> FALSE], vo |-> "ok"]
NoCall == [op |-> "none", id |-> None, exists |-> FALSE, io_ok |-> TRUE,
           raised |-> FALSE, ok |-> FALSE, ids |-> {}, before |-> {}]

Init ==
  /\ ledger_exists = FALSE /\ ledger_text = << >>
  /\ ytdlp_installed \in BOOLEAN
  /\ ffprobe_installed \in BOOLEAN
  /\ ffmpeg_installed \in BOOLEAN
  /\ videos = [id \in VideoIds |-> "absent"]
  /\ edited = [id \in VideoIds |-> "absent"]
  /\ is_scraping = FALSE /\ stop_event = FALSE /\ log_queue = << >>
  /\ gui_alive = TRUE
  /\ pc = "idle" /\ num_videos_to_find = 0 /\ driver = "none"
  /\ scroll_i = 0 /\ elems_left = 0
  /\ video_info_list = << >> /\ found_video_ids = {}
  /\ dl_i = 0 /\ processed_video_details = << >>
  /\ edit_i = 0 /\ edited_count = 0 /\ failed_edits = 0
  /\ run_count = 0 /\ run_start = [exists |-> FALSE, text |-> << >>]
  /\ events = << >> /\ terminal = Msg(None, None, None) /\ failopen = {}
  /\ last_call = NoCall /\ client_adds = << >>
  /\ last_stage = NoStage
  /\ emitted = << >> /\ handled = << >> /\ polling = FALSE /\ finishing = 0
  /\ progress_bar = "empty" /\ request = "none"
  /\ original_width = 0 /\ original_height = 0 /\ edits = DefaultEdits
  /\ vf = << >> /\ vf_built = FALSE

\* ============================================================ main.py: GUI
\* faulty variant: a start button that never finds a run in progress
Busy_Never(flag) == FALSE

\* main.py:144, "if self.is_scraping:"
Busy(flag) == flag

\* start_scraping_thread with a valid hashtag and a positive count: refused
\* while is_scraping, else starts the worker thread.
StartScraping(n) ==
  /\ gui_alive /\ ~Busy(is_scraping)
  /\ run_count < MaxRuns
  /\ is_scraping' = TRUE /\ stop_event' = FALSE
  /\ pc' = "setup" /\ num_videos_to_find' = n /\ driver' = "none"
  /\ scroll_i' = 0 /\ elems_left' = 0
  /\ video_info_list' = << >> /\ found_video_ids' = {}
  /\ dl_i' = 0 /\ processed_video_details' = << >>
  /\ edit_i' = 0 /\ edited_count' = 0 /\ failed_edits' = 0
  /\ run_count' = run_count + 1
  /\ run_start' = [exists |-> ledger_exists, text |-> ledger_text]
  /\ events' = << >> /\ terminal' = Msg(None, None, None) /\ failopen' = {}
  /\ progress_bar' = "empty" /\ request' = "started"
  /\ UNCHANGED << ledger_vars, env_vars, file_vars, log_queue, gui_alive,
                  last_call, client_adds, last_stage, emitted, handled, polling,
                  finishing, crop_vars >>

\* start_scraping_thread while a run is in progress (main.py:144-147): a
\* warning in the log box and a dialog, and nothing else
StartRefused ==
  /\ gui_alive /\ Busy(is_scraping)
  /\ request' = "refused"
  /\ UNCHANGED << ledger_vars, env_vars, file_vars, gui_vars, worker_vars,
                  last_call, client_adds, last_stage, emitted, handled, polling,
                  finishing, progress_bar, crop_vars >>

IsTerminal(m) == m.tag \in {"TASK_COMPLETE", "TASK_FAILED"}

\* index of the first terminal message of q, or Len(q) when there is none
RECURSIVE DrainEnd(_, _)
DrainEnd(q, k) ==
  IF k >= Len(q) THEN Len(q)
  ELSE IF IsTerminal(q[k]) THEN k ELSE DrainEnd(q, k + 1)

\* the progress bar after process_log_queue handled item m (main.py:112-114,
\* 121)
BarAfter(bar, m) ==
  IF m.tag = "PROGRESS_UPDATE" THEN "progress"
  ELSE IF m.tag = "TASK_COMPLETE" THEN "full" ELSE bar

\* process_log_queue: get_nowait until queue.Empty, or until a terminal
\* message was handled (break); a terminal message re-enables the button.
ProcessLogQueue ==
  /\ gui_alive /\ log_queue # << >>
  /\ LET k == DrainEnd(log_queue, 1) IN
       /\ log_queue' = SubSeq(log_queue, k + 1, Len(log_queue))
       /\ is_scraping' = IF IsTerminal(log_queue[k]) THEN FALSE ELSE is_scraping
       /\ progress_bar' = BarAfter(progress_bar, log_queue[k])
  /\ UNCHANGED << ledger_vars, env_vars, file_vars, stop_event, gui_alive, pc,
                  num_videos_to_find, driver, scan_vars, dl_vars, edit_vars,
                  hist_vars, last_call, client_adds, last_stage, emitted, handled,
                  polling, finishing, request, crop_vars >>

\* on_closing while a run is in progress and the user confirms: the stop
\* event is set and the window destroyed.
OnClosing ==
  /\ gui_alive /\ is_scraping
  /\ stop_event' = TRUE /\ gui_alive' = FALSE
  /\ UNCHANGED << ledger_vars, env_vars, file_vars, is_scraping, log_queue, pc,
                  num_videos_to_find, driver, scan_vars, dl_vars, edit_vars,
                  hist_vars, client_vars >>

\* ============================================= main.py: scraping_worker
\* faulty variant: the empty result reported as a failure
NoNewVideos_Failed == Msg("TASK_FAILED", "No new videos processed", "ERROR")

\* scraping_worker when scrape_and_download_videos_by_hashtag returned []
NoNewVideos == Msg("TASK_COMPLETE", "No new videos processed", "INFO")

\* faulty variant: the aggregate message with the two counts exchanged
FinalMessage_Swapped(edited_n, total_n, failed_n) ==
  [tag |-> "TASK_COMPLETE", text |-> "Process finished", level |-> "INFO",
   edited |-> failed_n, total |-> total_n, failed |-> edited_n]

\* the aggregate message after the edit loop (main.py:239-242)
FinalMessage(edited_n, total_n, failed_n) ==
  [tag |-> "TASK_COMPLETE", text |-> "Process finished", level |-> "INFO",
   edited |-> edited_n, total |-> total_n, failed |-> failed_n]

\* the "except Exception" of scraping_worker
WorkerFailed ==
  << Msg("LOG", "Scraping worker encountered an unhandled error", "CRITICAL"),
     Msg("TASK_FAILED", "Critical error in backend process", "ERROR") >>

\* the worker thread ends having put `msgs`, the last of them terminal
Finish(msgs) ==
  /\ log_queue' = log_queue \o msgs
  /\ terminal' = msgs[Len(msgs)]
  /\ pc' = "done"

\* setup_driver (scraper.py:54-62): the driver, or None when
\* webdriver.Chrome raised
setup_driver(ok) == IF ok THEN "open" ELSE "none"

\* faulty variant: a scrape that goes on without a driver
NoDriver_Never(d) == FALSE

\* scraper.py:377, "if not driver:"
NoDriver(d) == d = "none"

\* faulty variant: a return that leaves the browser open
quit_driver_Leak(d) == d

\* scraper.py:420-426, the finally clause of
\* scrape_and_download_videos_by_hashtag: "if driver:" ... driver.quit()
quit_driver(d) == IF d = "none" THEN d ELSE "closed"

\* the head of scrape_and_download_videos_by_hashtag: Chrome starts, or
\* the scrape is aborted with []
SetupDriver ==
  /\ pc = "setup"
  /\ \E ok \in BOOLEAN :
       LET d == setup_driver(ok) IN
       /\ driver' = d
       /\ IF NoDriver(d)
          THEN Finish(<< Msg("LOG", "Failed to setup WebDriver", "CRITICAL"),
                         NoNewVideos >>)
          ELSE /\ pc' = "navigate"
               /\ UNCHANGED << log_queue, terminal >>
  /\ UNCHANGED << ledger_vars, env_vars, file_vars, is_scraping, stop_event,
                  gui_alive, num_videos_to_find, scan_vars, dl_vars, edit_vars,
                  run_count, run_start, events, failopen, client_vars >>

\* get_video_links_from_tiktok up to the scroll loop: driver.get and the
\* wait for the feed container; either failing returns [] (and the driver
\* is quit in the finally clause)
Navigate ==
  /\ pc = "navigate"
  /\ \E r \in {"ok", "nav_error", "no_feed"} :
       IF r = "ok"
       THEN /\ pc' = "scroll" /\ UNCHANGED << driver, log_queue, terminal >>
       ELSE /\ driver' = quit_driver(driver) /\ Finish(<< NoNewVideos >>)
  /\ UNCHANGED << ledger_vars, env_vars, file_vars, is_scraping, stop_event,
                  gui_alive, num_videos_to_find, scan_vars, dl_vars, edit_vars,
                  run_count, run_start, events, failopen, client_vars >>

\* get_video_links_from_tiktok returns list[:n]; scrape_and_download then
\* either returns [] or starts the download loop
EndDiscovery(list, found) ==
  LET result == SubSeq(list, 1, IF Len(list) < num_videos_to_find
                                THEN Len(list) ELSE num_videos_to_find) IN
  /\ video_info_list' = result /\ found_video_ids' = found
  /\ IF result = << >>
     THEN /\ driver' = quit_driver(driver) /\ Finish(<< NoNewVideos >>) /\ dl_i' = dl_i
     ELSE /\ pc' = "download" /\ dl_i' = 1
          /\ UNCHANGED << driver, log_queue, terminal >>

\* the end of one pass of the scroll loop (scraper.py:171-174) with the
\* list as it now is: leave the loop when the target is reached or the
\* passes are used up, else scroll again
EndPass(list, found) ==
  /\ scroll_i' = scroll_i + 1 /\ elems_left' = 0
  /\ IF Len(list) >= num_videos_to_find \/ scroll_i + 1 >= ScrollPauses
     THEN EndDiscovery(list, found)
     ELSE /\ pc' = "scroll"
          /\ video_info_list' = list /\ found_video_ids' = found
          /\ UNCHANGED << driver, log_queue, terminal, dl_i >>

\* the head of one pass of the scroll loop: execute_script (an exception
\* breaks the loop) and find_elements, which yields m elements (none when
\* it raises)
ScrollPage ==
  /\ pc = "scroll"
  /\ \E scroll_ok \in BOOLEAN :
       IF ~scroll_ok
       THEN /\ EndDiscovery(video_info_list, found_video_ids)
            /\ UNCHANGED << scroll_i, elems_left >>
       ELSE \E m \in 0..MaxElems :
              IF m = 0
              THEN EndPass(video_info_list, found_video_ids)
              ELSE /\ pc' = "scan" /\ elems_left' = m
                   /\ UNCHANGED << scroll_i, video_info_list, found_video_ids,
                                   driver, log_queue, terminal, dl_i >>
  /\ UNCHANGED << ledger_vars, env_vars, file_vars, is_scraping, stop_event,
                  gui_alive, num_videos_to_find, processed_video_details,
                  edit_vars, run_count, run_start, events, failopen, client_vars >>

\* the scan of the next element of the current find_elements result
ScanNext ==
  /\ pc = "scan"
  /\ \E e \in Elements : \E read_ok \in ReadOutcomes(ledger_exists) :
       LET r == ScanElement(e, read_ok, video_info_list, found_video_ids,
                            num_videos_to_find, ledger_exists, ledger_text) IN
       /\ failopen' =
            IF r.list # video_info_list
               /\ MissedBy(r.list[Len(r.list)][1], ledger_exists, ledger_text, read_ok)
            THEN failopen \cup {FailOpen("scan", r.list[Len(r.list)][1])}
            ELSE failopen
       /\ IF r.brk \/ elems_left = 1
          THEN EndPass(r.list, r.found)
          ELSE /\ elems_left' = elems_left - 1
               /\ video_info_list' = r.list /\ found_video_ids' = r.found
               /\ UNCHANGED << pc, scroll_i, driver, log_queue, terminal, dl_i >>
  /\ UNCHANGED << ledger_vars, env_vars, file_vars, is_scraping, stop_event,
                  gui_alive, num_videos_to_find, processed_video_details,
                  edit_vars, run_count, run_start, events, client_vars >>

\* faulty variant: every pass takes the first item of the list again
CurrentItem_First(list, i) == list[1][1]

\* faulty variant: the list walked from its end
CurrentItem_Reversed(list, i) == list[Len(list) + 1 - i][1]

\* scraper.py:397, "for i, (video_id, video_url) in enumerate(video_links_info)":
\* the id of pass i
CurrentItem(list, i) == list[i][1]

\* faulty variant: a download loop that ends after its first pass
MoreToDownload_None(list, i) == FALSE

\* scraper.py:397: the for loop has another pass after pass i
MoreToDownload(list, i) == i < Len(list)

\* what the history keeps of one download_video call
DownloadResult(r) ==
  IF r.ret # None THEN "ok"
  ELSE IF r.fetch \in {"skipped", "missing"} THEN r.fetch ELSE "failed"

\* one pass of the download loop of scrape_and_download_videos_by_hashtag;
\* after the last item the driver is quit and the list returned to
\* scraping_worker
DownloadItem ==
  /\ pc = "download"
  /\ LET video_id == CurrentItem(video_info_list, dl_i) IN
     \E read_ok \in ReadOutcomes(ledger_exists) :
     LET processed == is_video_processed(video_id, ledger_exists, ledger_text, read_ok) IN
     \E fo \in FetchChoices(processed, ytdlp_installed) :
     \E vo \in VerifyChoices(processed, ytdlp_installed, ffprobe_installed, fo) :
       LET r == download_video(video_id, processed, ytdlp_installed,
                               ffprobe_installed, videos[video_id], fo, vo, TRUE)
           details == IF r.ret # None
                      THEN Append(processed_video_details, video_id)
                      ELSE processed_video_details
       IN
       /\ videos' = [videos EXCEPT ![video_id] = r.file]
       /\ processed_video_details' = details
       /\ events' = Append(events, Ev("download", video_id, DownloadResult(r), r.file))
       /\ failopen' =
            IF MissedBy(video_id, ledger_exists, ledger_text, read_ok)
            THEN failopen \cup {FailOpen("download", video_id)} ELSE failopen
       /\ IF MoreToDownload(video_info_list, dl_i)
          THEN /\ dl_i' = dl_i + 1 /\ log_queue' = log_queue \o r.logs
               /\ UNCHANGED << pc, driver, terminal, edit_i >>
          ELSE /\ dl_i' = dl_i /\ driver' = quit_driver(driver)
               /\ IF details = << >>
                  THEN Finish(r.logs \o << NoNewVideos >>) /\ edit_i' = edit_i
                  ELSE /\ pc' = "edit" /\ edit_i' = 1
                       /\ log_queue' = log_queue \o r.logs
                       /\ terminal' = terminal
  /\ UNCHANGED << ledger_vars, env_vars, edited, is_scraping, stop_event,
                  gui_alive, num_videos_to_find, scan_vars, edited_count,
                  failed_edits, run_count, run_start, client_vars >>

\* faulty variant: a loop head that never sees the stop request
StopRequested_Never(stop) == FALSE

\* main.py:209, "if self.stop_event.is_set():"
StopRequested(stop) == stop

\* what the history keeps of one edit_video call that returned
EditResult(r) == IF r.ret # None THEN "ok" ELSE "failed"

\* main.py:226, "if edited_video_path:" -- the item is committed
EditSucceeded(r) == r.ret # None

\* one pass of the edit loop of scraping_worker (main.py:207-237): the stop
\* check, edit_video, the ledger append, the counters; after the last item
\* (or on stop) the aggregate message.  An exception leaving edit_video
\* goes to the "except Exception" of scraping_worker.
EditItem ==
  /\ pc = "edit"
  /\ LET total == Len(processed_video_details)
         video_id == processed_video_details[edit_i] IN
     IF StopRequested(stop_event)
     THEN /\ Finish(<< FinalMessage(edited_count, total, failed_edits) >>)
          /\ UNCHANGED << ledger_vars, edited, edit_vars, events >>
     ELSE \E po \in ProbeChoices(ffmpeg_installed, ffprobe_installed, videos[video_id]) :
          \E eo \in EncodeChoices(ffmpeg_installed, ffprobe_installed,
                                   videos[video_id], po) :
          \E write_ok \in BOOLEAN :
       LET r == edit_video(video_id, ffmpeg_installed, ffprobe_installed,
                           videos[video_id], edited[video_id], po, eo, TRUE)
           a == add_processed_video(video_id, ledger_exists, ledger_text, write_ok)
           ok == EditSucceeded(r)
           edited_n == IF ok THEN edited_count + 1 ELSE edited_count
           failed_n == IF ok THEN failed_edits ELSE failed_edits + 1
       IN
       /\ edited' = [edited EXCEPT ![video_id] = r.out]
       /\ IF r.raised
          THEN /\ Finish(r.logs \o WorkerFailed)
               /\ events' = Append(events, Ev("edit", video_id, "raised", r.out))
               /\ UNCHANGED << ledger_vars, edit_vars >>
          ELSE /\ IF ok
                  THEN /\ ledger_exists' = a.exists /\ ledger_text' = a.text
                       /\ events' = events \o
                            << Ev("edit", video_id, EditResult(r), r.out),
                               Ev("append", video_id,
                                  IF a.ok THEN "ok" ELSE "failed", "none") >>
                  ELSE /\ UNCHANGED ledger_vars
                       /\ events' = Append(events,
                                           Ev("edit", video_id, EditResult(r), r.out))
               /\ edited_count' = edited_n /\ failed_edits' = failed_n
               /\ IF edit_i < total
                  THEN /\ edit_i' = edit_i + 1
                       /\ log_queue' = log_queue \o r.logs
                       /\ UNCHANGED << pc, terminal >>
                  ELSE /\ edit_i' = edit_i
                       /\ Finish(r.logs \o << FinalMessage(edited_n, total, failed_n) >>)
  /\ UNCHANGED << env_vars, videos, is_scraping, stop_event, gui_alive,
                  num_videos_to_find, driver, scan_vars, dl_vars, run_count,
                  run_start, failopen, client_vars >>

\* on_closing has destroyed the window: app.mainloop() (main.py:284) returns,
\* the interpreter exits, and the worker, a daemon thread (main.py:177), is
\* stopped wherever it is.  Nothing it had not yet done is done; the tool
\* it was waiting for is left behind and may leave any file at the path of
\* the item in hand.
ProcessExit ==
  /\ ~gui_alive /\ pc \notin {"idle", "done", "exited"}
  /\ pc' = "exited"
  /\ IF pc = "download" /\ ytdlp_installed
     THEN \E f \in FileStates :
            videos' = [videos EXCEPT ![CurrentItem(video_info_list, dl_i)] = f]
     ELSE videos' = videos
  /\ IF pc = "edit" /\ check_ffmpeg(ffmpeg_installed)
     THEN \E f \in FileStates :
            edited' = [edited EXCEPT ![processed_video_details[edit_i]] = f]
     ELSE edited' = edited
  /\ UNCHANGED << ledger_vars, env_vars, gui_vars, num_videos_to_find, driver,
                  scan_vars, dl_vars, edit_vars, hist_vars, client_vars >>

\* ============================================ utils.py: a ledger client
\* The calls the test block of utils.py (49-71) makes, in any order and
\* with any of the ids.
LedgerLoad ==
  /\ \E read_ok \in ReadOutcomes(ledger_exists) :
       LET r == get_processed_videos(ledger_exists, ledger_text, read_ok) IN
       last_call' = [op |-> "load", id |-> None, exists |-> ledger_exists,
                     io_ok |-> read_ok, raised |-> r.raised, ok |-> FALSE,
                     ids |-> r.ids, before |-> {}]
  /\ UNCHANGED << ledger_vars, env_vars, file_vars, gui_vars, worker_vars,
                  client_adds, last_stage, queue_vars, crop_vars >>

LedgerCheck(video_id) ==
  /\ \E read_ok \in ReadOutcomes(ledger_exists) :
       LET r == get_processed_videos(ledger_exists, ledger_text, read_ok) IN
       last_call' = [op |-> "check", id |-> video_id, exists |-> ledger_exists,
                     io_ok |-> read_ok, raised |-> r.raised,
                     ok |-> is_video_processed(video_id, ledger_exists,
                                               ledger_text, read_ok),
                     ids |-> r.ids, before |-> {}]
  /\ UNCHANGED << ledger_vars, env_vars, file_vars, gui_vars, worker_vars,
                  client_adds, last_stage, queue_vars, crop_vars >>

LedgerAdd(video_id) ==
  /\ Len(client_adds) < MaxAppends
  /\ \E write_ok \in BOOLEAN :
       LET a == add_processed_video(video_id, ledger_exists, ledger_text, write_ok) IN
       /\ ledger_exists' = a.exists /\ ledger_text' = a.text
       /\ client_adds' = IF a.ok THEN Append(client_adds, video_id) ELSE client_adds
       /\ last_call' = [op |-> "add", id |-> video_id, exists |-> ledger_exists,
                        io_ok |-> write_ok, raised |-> FALSE, ok |-> a.ok,
                        ids |-> LedgerIds(a.exists, a.text),
                        before |-> LedgerIds(ledger_exists, ledger_text)]
  /\ UNCHANGED << env_vars, file_vars, gui_vars, worker_vars, last_stage,
                  queue_vars, crop_vars >>

NextLedger ==
  \/ LedgerLoad
  \/ \E x \in VideoIds : LedgerCheck(x)
  \/ \E x \in VideoIds : LedgerAdd(x)

SpecLedger == Init /\ [][NextLedger]_vars

\* ================================== one item, stage by stage (SpecItem)
\* the downloads and the edits on disk after a call left file f at `path`
VideosAfter(path, f) ==
  [id \in VideoIds |-> IF filepath(id) = path THEN f ELSE videos[id]]
EditedAfter(path, f) ==
  [id \in VideoIds |-> IF output_video_path(id) = path THEN f ELSE edited[id]]

\* faulty variant: the downloaded file removed when its edit failed
InputAfterFailedEdit_Deleted(file) == "absent"

\* main.py:230-234, the branch taken when edit_video returned None: it
\* logs and counts, and leaves the downloaded file as it is
InputAfterFailedEdit(file) == file

\* The body of the download loop (scraper.py:397-411) for one id: the
\* download_video call with any outcome of its ledger check, of yt-dlp, of
\* the integrity probe and of os.remove; an id whose call returned a path
\* is kept for the edit loop.
ItemDownload(video_id) ==
  /\ video_id \notin Range(processed_video_details)
  /\ \E read_ok \in ReadOutcomes(ledger_exists) :
     LET processed == is_video_processed(video_id, ledger_exists, ledger_text, read_ok) IN
     \E fo \in FetchChoices(processed, ytdlp_installed) :
     \E vo \in VerifyChoices(processed, ytdlp_installed, ffprobe_installed, fo) :
     \E rm_ok \in DownloadRemoveChoices(video_id, processed, ytdlp_installed,
                                         ffprobe_installed, videos[video_id], fo, vo) :
       LET r == download_video(video_id, processed, ytdlp_installed,
                               ffprobe_installed, videos[video_id], fo, vo, rm_ok)
       IN
       /\ videos' = [videos EXCEPT ![video_id] = r.file]
       /\ processed_video_details' =
            IF r.ret # None THEN Append(processed_video_details, video_id)
            ELSE processed_video_details
       /\ last_stage' =
            [stage |-> "download", id |-> video_id, ret |-> r.ret, raised |-> FALSE,
             fetch |-> r.fetch, verify |-> r.verify, probe |-> "none",
             encode |-> "none", alive |-> {}, input |-> "absent",
             input_after |-> "absent", before |-> videos[video_id],
             after |-> r.file, rm_ok |-> rm_ok, committed |-> FALSE,
             ledger_before |-> LedgerIds(ledger_exists, ledger_text),
             ledger_after |-> LedgerIds(ledger_exists, ledger_text),
             fo |-> fo, vo |-> vo]
  /\ UNCHANGED << ledger_vars, env_vars, edited, gui_vars, pc, num_videos_to_find,
                  driver, scan_vars, dl_i, edit_vars, hist_vars, last_call,
                  client_adds, queue_vars, crop_vars >>

\* The body of the edit loop (main.py:213-234) for the first id the
\* download loop kept: the edit_video call with any outcome of the geometry
\* probe, of ffmpeg and of os.remove, then the ledger append when a path
\* came back.  An exception out of edit_video skips the append.
ItemEdit ==
  /\ processed_video_details # << >>
  /\ Len(ledger_text) < 2 * MaxAppends
  /\ LET video_id == Head(processed_video_details) IN
     \E po \in ProbeChoices(ffmpeg_installed, ffprobe_installed, videos[video_id]) :
     \E eo \in EncodeChoices(ffmpeg_installed, ffprobe_installed, videos[video_id], po) :
     \E rm_ok \in EditRemoveChoices(video_id, ffmpeg_installed, ffprobe_installed,
                                     videos[video_id], edited[video_id], po, eo) :
     \E write_ok \in BOOLEAN :
       LET r == edit_video(video_id, ffmpeg_installed, ffprobe_installed,
                           videos[video_id], edited[video_id], po, eo, rm_ok)
           commit == ~r.raised /\ EditSucceeded(r)
           a == IF commit
                THEN add_processed_video(video_id, ledger_exists, ledger_text, write_ok)
                ELSE [ok |-> FALSE, exists |-> ledger_exists, text |-> ledger_text]
           written == VideosAfter(output_video_path(video_id), r.out)
       IN
       /\ edited' = EditedAfter(output_video_path(video_id), r.out)
       /\ videos' = [written EXCEPT ![video_id] =
                       IF ~r.raised /\ ~EditSucceeded(r)
                       THEN InputAfterFailedEdit(@) ELSE @]
       /\ ledger_exists' = a.exists /\ ledger_text' = a.text
       /\ processed_video_details' = Tail(processed_video_details)
       /\ last_stage' =
            [stage |-> "edit", id |-> video_id, ret |-> r.ret, raised |-> r.raised,
             fetch |-> "none", verify |-> "none", probe |-> r.probe,
             encode |-> r.encode, alive |-> r.alive, input |-> videos[video_id],
             input_after |-> videos'[video_id], before |-> edited[video_id],
             after |-> r.out, rm_ok |-> rm_ok, committed |-> a.ok,
             ledger_before |-> LedgerIds(ledger_exists, ledger_text),
             ledger_after |-> LedgerIds(a.exists, a.text),
             fo |-> NoStage.fo, vo |-> NoStage.vo]
  /\ UNCHANGED << env_vars, gui_vars, pc, num_videos_to_find, driver,
                  scan_vars, dl_i, edit_vars, hist_vars, last_call, client_adds,
                  queue_vars, crop_vars >>

\* the item followed
ItemId == CHOOSE x \in VideoIds : TRUE

NextItem ==
  \/ ItemDownload(ItemId)
  \/ ItemEdit

SpecItem == Init /\ [][NextItem]_vars

\* ======================= main.py: the queue between worker and window
\* what the worker and its callees put while a run goes on
ProgressItems ==
  { Msg("LOG", "log line", "INFO"), Msg("PROGRESS_UPDATE", "progress", None) }
\* main.py:197, 242 and 248
TerminalItems ==
  { Msg("TASK_COMPLETE", "Process finished", "INFO"),
    Msg("TASK_FAILED", "Critical error in backend process", "ERROR") }
\* main.py:251, the finally clause of scraping_worker
WorkerFinished == Msg("LOG", "worker thread finished", "DEBUG")

\* faulty variant: a queue that hands out its newest item
get_nowait_Lifo(q) == [item |-> q[Len(q)], rest |-> SubSeq(q, 1, Len(q) - 1)]

\* queue.Queue.get_nowait on a queue that is not empty (main.py:74, 105)
get_nowait(q) == [item |-> Head(q), rest |-> Tail(q)]

\* a log_queue.put of scraping_worker, scraper.py or editor.py before the
\* terminal message
WorkerPut ==
  /\ pc \notin {"idle", "done", "exited"}
  /\ Cardinality({ k \in 1..Len(emitted) : emitted[k] \in ProgressItems }) < MaxPuts
  /\ \E m \in ProgressItems :
       /\ log_queue' = Append(log_queue, m)
       /\ emitted' = Append(emitted, m)
  /\ UNCHANGED << ledger_vars, env_vars, file_vars, is_scraping, stop_event,
                  gui_alive, worker_vars, last_call, client_adds, last_stage,
                  crop_vars, handled, polling, finishing, bar_vars >>

\* the terminal message of a run (main.py:197, 242, 248); the closing line
\* of the finally clause is still to come
WorkerEnd ==
  /\ pc \notin {"idle", "done", "exited"}
  /\ \E m \in TerminalItems :
       /\ log_queue' = Append(log_queue, m)
       /\ emitted' = Append(emitted, m)
       /\ terminal' = m
  /\ pc' = "done" /\ finishing' = finishing + 1
  /\ UNCHANGED << ledger_vars, env_vars, file_vars, is_scraping, stop_event,
                  gui_alive, num_videos_to_find, driver, scan_vars, dl_vars,
                  edit_vars, run_count, run_start, events, failopen, last_call,
                  client_adds, last_stage, crop_vars, handled, polling,
                  bar_vars >>

\* main.py:249-251: the finally clause puts its line after the terminal
\* message, possibly when the next run has already begun
WorkerFinally ==
  /\ finishing > 0
  /\ log_queue' = Append(log_queue, WorkerFinished)
  /\ emitted' = Append(emitted, WorkerFinished)
  /\ finishing' = finishing - 1
  /\ UNCHANGED << ledger_vars, env_vars, file_vars, is_scraping, stop_event,
                  gui_alive, worker_vars, last_call, client_adds, last_stage,
                  crop_vars, handled, polling, bar_vars >>

\* the timer set by self.after(100, self.process_log_queue) (main.py:75,
\* 140) fires: process_log_queue enters its loop
PollStart ==
  /\ gui_alive /\ ~polling
  /\ polling' = TRUE
  /\ UNCHANGED << ledger_vars, env_vars, file_vars, gui_vars, worker_vars,
                  last_call, client_adds, last_stage, crop_vars, emitted, handled,
                  finishing, bar_vars >>

\* one pass of the loop of process_log_queue (main.py:104-133): get_nowait
\* raises queue.Empty and the loop is left, or the item is handled, and a
\* terminal item re-enables the button and breaks the loop
PollGet ==
  /\ gui_alive /\ polling
  /\ IF log_queue = << >>
     THEN /\ polling' = FALSE
          /\ UNCHANGED << log_queue, handled, is_scraping, progress_bar >>
     ELSE LET g == get_nowait(log_queue) IN
          /\ log_queue' = g.rest
          /\ handled' = Append(handled, g.item)
          /\ is_scraping' = IF IsTerminal(g.item) THEN FALSE ELSE is_scraping
          /\ polling' = ~IsTerminal(g.item)
          /\ progress_bar' = BarAfter(progress_bar, g.item)
  /\ UNCHANGED << ledger_vars, env_vars, file_vars, stop_event, gui_alive,
                  worker_vars, last_call, client_adds, last_stage, crop_vars,
                  emitted, finishing, request >>

InitQueue == Init /\ ytdlp_installed /\ ffprobe_installed /\ ffmpeg_installed

NextQueue ==
  \/ StartScraping(1)
  \/ StartRefused
  \/ WorkerPut
  \/ WorkerEnd
  \/ WorkerFinally
  \/ PollStart
  \/ PollGet
  \/ OnClosing
  \/ ProcessExit

\* The timer is set again in the finally clause of process_log_queue, so
\* while the window exists the poll is started again and its loop goes on
\* (the user dismisses the dialog a terminal message opens).
SpecQueue ==
  InitQueue /\ [][NextQueue]_vars /\ WF_vars(PollStart) /\ WF_vars(PollGet)

\* ============ scraper.py: one scrape, with its exceptions (SpecScrape)
ScrapeFailed == Msg("LOG", "An unexpected error occurred", "CRITICAL")

\* scraper.py:413-426: an exception leaves the try block of
\* scrape_and_download_videos_by_hashtag during discovery or during the
\* download loop (os.makedirs at scraper.py:194 is in no try of
\* download_video): the handler returns the downloads made so far, after
\* the finally clause, and scraping_worker goes on with them
ScrapeRaised ==
  /\ pc \in {"navigate", "scroll", "scan", "download"}
  /\ driver' = quit_driver(driver)
  /\ IF processed_video_details = << >>
     THEN Finish(<< ScrapeFailed, NoNewVideos >>) /\ edit_i' = edit_i
     ELSE /\ pc' = "edit" /\ edit_i' = 1
          /\ log_queue' = Append(log_queue, ScrapeFailed)
          /\ terminal' = terminal
  /\ UNCHANGED << ledger_vars, env_vars, file_vars, is_scraping, stop_event,
                  gui_alive, num_videos_to_find, scan_vars, dl_vars, edited_count,
                  failed_edits, run_count, run_start, events, failopen,
                  client_vars >>

\* a scrape with its tools in place
InitScrape == Init /\ ytdlp_installed /\ ffprobe_installed /\ ffmpeg_installed

NextScrape ==
  \/ \E n \in 1..MaxN : StartScraping(n)
  \/ SetupDriver
  \/ Navigate
  \/ ScrollPage
  \/ ScanNext
  \/ DownloadItem
  \/ ScrapeRaised

SpecScrape == InitScrape /\ [][NextScrape]_vars

\* ================================ editor.py: the filter chain (SpecCrop)
\* sizes the geometry probe prints, and crop_percent values a caller gives
Dimensions == {1, 2, 100, 500, 720, 999, 1000}
CropPercents == {0, 1, 2, 29, 35, 49, 50, 51}

\* editor.py:63-75 and the edits argument: the geometry probe printed
\* "<width>x<height>", parsed into the two integers
GeometryProbe ==
  /\ \E w \in Dimensions : \E h \in Dimensions :
     \E m \in BOOLEAN : \E c \in CropPercents :
       /\ original_width' = w /\ original_height' = h
       /\ edits' = [mirror |-> m, crop_percent |-> c]
  /\ vf' = << >> /\ vf_built' = FALSE
  /\ UNCHANGED << ledger_vars, env_vars, file_vars, gui_vars, worker_vars,
                  last_call, client_adds, last_stage, queue_vars >>

\* editor.py:77-108: video_filters is built and, when not empty, given to
\* ffmpeg as its -vf argument
BuildFilters ==
  /\ original_width > 0 /\ ~vf_built
  /\ vf' = video_filters(original_width, original_height, edits)
  /\ vf_built' = TRUE
  /\ UNCHANGED << ledger_vars, env_vars, file_vars, gui_vars, worker_vars,
                  last_call, client_adds, last_stage, queue_vars,
                  original_width, original_height, edits >>

\* edit_video gets to its filter chain with ffmpeg and ffprobe in place
InitCrop == Init /\ check_ffmpeg(ffmpeg_installed) /\ ffprobe_installed /\ ytdlp_installed

NextCrop ==
  \/ GeometryProbe
  \/ BuildFilters

SpecCrop == InitCrop /\ [][NextCrop]_vars

Next ==
  \/ \E n \in 1..MaxN : StartScraping(n)
  \/ ProcessLogQueue
  \/ OnClosing
  \/ SetupDriver
  \/ Navigate
  \/ ScrollPage
  \/ ScanNext
  \/ DownloadItem
  \/ EditItem
  \/ ProcessExit

Spec == Init /\ [][Next]_vars

\* ================================================================ claims
\* ---- history of the current run
EventIdx(ev, res) ==
  { k \in 1..Len(events) : events[k].ev = ev /\ events[k].res \in res }
Failures == {"failed", "missing", "raised"}
\* the ids discovery returned to scrape_and_download_videos_by_hashtag
ListIds ==
  IF pc \in {"download", "edit", "done"}
  THEN { video_info_list[k][1] : k \in 1..Len(video_info_list) } ELSE {}
ItemFailed(id) ==
  \E k \in EventIdx("download", Failures) \cup EventIdx("edit", Failures) :
    events[k].id = id
ItemCommitted(id) == \E k \in EventIdx("append", {"ok"}) : events[k].id = id
RunStartText == IF run_start.exists THEN run_start.text ELSE << >>
IsAppendOk(e) == e.ev = "append" /\ e.res = "ok"
RECURSIVE LinesOf(_)
LinesOf(es) ==
  IF es = << >> THEN << >> ELSE << Head(es).id, NL >> \o LinesOf(Tail(es))

\* C1: during a run the ledger grows only by appends that directly follow
\* an edit_video call for the same id that returned a path while its
\* output file existed with size > 0; an item whose download or edit
\* failed adds nothing to the ledger.
C1_CommitOnlyAfterEdit ==
  /\ ledger_text = RunStartText \o LinesOf(SelectSeq(events, IsAppendOk))
  /\ \A k \in 1..Len(events) :
       events[k].ev = "append" =>
         /\ k > 1
         /\ events[k - 1].ev = "edit" /\ events[k - 1].id = events[k].id
         /\ events[k - 1].res = "ok" /\ events[k - 1].file = "data"
  /\ \A id \in VideoIds : ItemFailed(id) => ~ItemCommitted(id)

\* C1 witness: an id was committed in a run in which another item failed
C1_Witness ==
  /\ \E id \in VideoIds : ItemCommitted(id)
  /\ \E id \in VideoIds : ItemFailed(id)

\* C2 as claimed: when an item fails in a stage the run still ends with
\* TASK_COMPLETE, every downloaded item is still given to edit_video, every
\* successfully edited item is given to the ledger append, and the failing
\* item is not committed (no cancellation requested).
C2_FailureNeverAborts ==
  (pc = "done" /\ ~stop_event /\ \E id \in ListIds : ItemFailed(id)) =>
    /\ terminal.tag = "TASK_COMPLETE"
    /\ \A id \in ListIds : ItemFailed(id) => ~ItemCommitted(id)
    /\ \A k \in EventIdx("download", {"ok"}) :
         \E j \in EventIdx("edit", {"ok", "failed", "raised"}) :
           events[j].id = events[k].id
    /\ \A k \in EventIdx("edit", {"ok"}) :
         \E j \in EventIdx("append", {"ok", "failed"}) : events[j].id = events[k].id

\* C3 as claimed: the aggregate outcome of a run that discovered items
\* reports succeeded = items committed and failed = items that failed in
\* any stage, fetch included.
C3_AggregateCountsAllStages ==
  (pc = "done" /\ ListIds # {}) =>
    /\ terminal.tag = "TASK_COMPLETE"
    /\ terminal.edited = Cardinality({ id \in ListIds : ItemCommitted(id) })
    /\ terminal.failed = Cardinality({ id \in ListIds : ItemFailed(id) })

\* C3 amended: the aggregate message counts edits only: succeeded = the
\* downloaded items for which edit_video returned a path, failed = the
\* downloaded items whose edit failed, total = the downloaded items; a run
\* that downloaded nothing ends with a message that carries no counts.
C3_AggregateCountsEdits ==
  pc = "done" =>
    /\ terminal.text = "Process finished" =>
         /\ terminal.total = Len(processed_video_details)
         /\ terminal.total > 0
         /\ terminal.edited = Cardinality(EventIdx("edit", {"ok"}))
         /\ terminal.failed = Cardinality(EventIdx("edit", {"failed"}))
         /\ ~stop_event => terminal.edited + terminal.failed = terminal.total
    /\ terminal.text = "No new videos processed" =>
         /\ processed_video_details = << >>
         /\ terminal.edited = 0 /\ terminal.failed = 0 /\ terminal.total = 0
    /\ (processed_video_details = << >>) => terminal.text = "No new videos processed"

\* C3 witness: of two discovered items one failed its download and the
\* other was edited and committed; the message says 1 of 1, 0 failed
C3_Witness ==
  /\ pc = "done" /\ Cardinality(ListIds) = 2
  /\ EventIdx("download", {"failed"}) # {}
  /\ terminal.text = "Process finished"
  /\ terminal.edited = 1 /\ terminal.total = 1 /\ terminal.failed = 0
  /\ \E id \in ListIds : ItemCommitted(id)

C5_MissingTranscoderAbortsRun ==
  ~ffmpeg_installed =>
    Cardinality(EventIdx("edit", {"ok", "failed", "raised"})) <= 1

\* C5 amended: with ffmpeg missing edit_video is called for every
\* downloaded item and returns None each time without running a tool: no
\* item is committed, and (unless stopped) the run ends with TASK_COMPLETE
\* reporting every downloaded item as failed.
C5_MissingTranscoderFailsEachItem ==
  ~ffmpeg_installed =>
    /\ EventIdx("edit", {"ok", "raised"}) = {}
    /\ EventIdx("append", {"ok", "failed"}) = {}
    /\ ledger_text = RunStartText
    /\ (pc = "done" /\ ~stop_event /\ processed_video_details # << >>) =>
         /\ Cardinality(EventIdx("edit", {"failed"})) = Len(processed_video_details)
         /\ terminal = FinalMessage(0, Len(processed_video_details),
                                    Len(processed_video_details))

\* C5 witness: ffmpeg is missing and edit_video was called for both of two
\* downloaded items
C5_Witness ==
  /\ ~ffmpeg_installed /\ pc = "done"
  /\ Cardinality(EventIdx("edit", {"failed"})) = 2

\* ---- the ledger as the run found it
RunStartIds == LedgerIds(run_start.exists, run_start.text)
Listed(id) == \E k \in 1..Len(video_info_list) : video_info_list[k][1] = id

\* C6 as claimed: no id that was in the ledger when discovery ran is in the
\* list get_video_links_from_tiktok builds.
C6_DiscoveryNeverReturnsLedgerIds ==
  \A id \in VideoIds : Line(id) \in RunStartIds => ~Listed(id)

\* C6 amended: an id that was in the ledger when discovery ran is in the
\* list only if the ledger check made for it during the scan answered False
\* because reading the ledger file raised (get_processed_videos fails open).
C6_DiscoveryReturnsLedgerIdsOnlyOnReadFault ==
  \A id \in VideoIds :
    (Line(id) \in RunStartIds /\ Listed(id)) => FailOpen("scan", id) \in failopen

\* C6 witness: discovery ended with a non-empty list that leaves out an id
\* the ledger held
C6_Witness ==
  /\ pc = "download"
  /\ \E a \in VideoIds : Line(a) \in RunStartIds /\ ~Listed(a)
  /\ \E b \in VideoIds : Line(b) \notin RunStartIds /\ Listed(b)

\* number of ledger lines that hold id
Occurrences(id) ==
  Cardinality({ k \in 1..Len(ledger_text) : ledger_text[k] = id })

\* C7 as claimed: over successive runs the ledger never holds two entries
\* for one id.
C7_NoIdCommittedTwice ==
  \A id \in VideoIds : Occurrences(id) <= 1

\* C7 amended: within a run no id is appended twice, and an id the ledger
\* held when the run started is appended again only if both ledger checks
\* made for it in the run, the one of the scan and the one before the
\* download, answered False because reading the ledger file raised.
C7_RecommitOnlyOnReadFaults ==
  /\ \A j, k \in EventIdx("append", {"ok"}) :
       j # k => events[j].id # events[k].id
  /\ \A k \in EventIdx("append", {"ok"}) :
       Line(events[k].id) \in RunStartIds =>
         /\ FailOpen("scan", events[k].id) \in failopen
         /\ FailOpen("download", events[k].id) \in failopen

\* C7 witness: a second run has ended that committed a new id and did not
\* commit again the id the first run had committed
C7_Witness ==
  /\ run_count = 2 /\ pc = "done"
  /\ \E a \in VideoIds : Line(a) \in RunStartIds /\ ~ItemCommitted(a)
  /\ \E b \in VideoIds : Line(b) \notin RunStartIds /\ ItemCommitted(b)

\* ---- the ledger client
Added == { Line(client_adds[k]) : k \in 1..Len(client_adds) }

C10_AppendIdempotent ==
  /\ last_call.op = "load" => last_call.ids = Added
  /\ last_call.op = "check" => (last_call.ok <=> Line(last_call.id) \in Added)

\* C10 amended: the same for loads and checks whose read of the ledger file
\* does not raise: the file holds one line for each append, the set the
\* load returns holds each id once.
C10_AppendIdempotentWhenReadable ==
  /\ (last_call.op = "load" /\ last_call.io_ok) => last_call.ids = Added
  /\ (last_call.op = "check" /\ last_call.io_ok) =>
       (last_call.ok <=> Line(last_call.id) \in Added)
  /\ Len(ledger_text) = 2 * Len(client_adds)

\* C10 witness: a load after the same id was appended twice
C10_Witness ==
  /\ last_call.op = "load" /\ last_call.io_ok
  /\ \E j, k \in 1..Len(client_adds) : j < k /\ client_adds[j] = client_adds[k]
  /\ Cardinality(last_call.ids) < Len(client_adds)

\* C11: the ledger is append-only: no step of the program (discovery,
\* download, verification, edit, commit, a failure of any of them, the stop
\* request, the exit of the process) removes the file, changes text it
\* already holds, or makes an id that a load returned no longer loadable.
C11_AppendOnly ==
  [][ /\ ledger_exists => ledger_exists'
      /\ Len(ledger_text) <= Len(ledger_text')
      /\ SubSeq(ledger_text', 1, Len(ledger_text)) = ledger_text
      /\ LedgerIds(ledger_exists, ledger_text)
           \subseteq LedgerIds(ledger_exists', ledger_text') ]_vars

\* C11 witness: a run over a ledger that already held an id has ended after
\* a failed item and a stop request, and the ledger still holds that id
C11_Witness ==
  /\ pc = "done" /\ stop_event
  /\ RunStartIds # {}
  /\ RunStartIds \subseteq LedgerIds(ledger_exists, ledger_text)
  /\ \E id \in VideoIds : ItemFailed(id)

C13_StopLetsItemFinish ==
  (stop_event /\ dl_i >= 1) =>
    /\ pc # "exited"
    /\ (pc = "done" /\ EventIdx("edit", {"raised"}) = {}) =>
         terminal.tag = "TASK_COMPLETE"

\* ---- the order of the calls of a run
IsDownload(e) == e.ev = "download"
IsEdit(e) == e.ev = "edit"
IdsOf(es) == [k \in 1..Len(es) |-> es[k].id]
ListedIds == [k \in 1..Len(video_info_list) |-> video_info_list[k][1]]
IsPrefix(a, b) == Len(a) <= Len(b) /\ SubSeq(b, 1, Len(a)) = a
\* a is b with some elements left out
RECURSIVE IsSubseq(_, _)
IsSubseq(a, b) ==
  IF a = << >> THEN TRUE
  ELSE IF b = << >> THEN FALSE
  ELSE IF Head(a) = Head(b) THEN IsSubseq(Tail(a), Tail(b))
  ELSE IsSubseq(a, Tail(b))

\* C14: within a run download_video is called for the discovered items in
\* list order, edit_video for the downloaded ones in that order, and the
\* ids appended to the ledger are, in order, a subsequence of the list
\* discovery returned.
C14_CommitsInDiscoveryOrder ==
  /\ IsPrefix(IdsOf(SelectSeq(events, IsDownload)), ListedIds)
  /\ IsSubseq(processed_video_details, ListedIds)
  /\ IsPrefix(IdsOf(SelectSeq(events, IsEdit)), processed_video_details)
  /\ IsSubseq(IdsOf(SelectSeq(events, IsAppendOk)), ListedIds)
  /\ ledger_text = RunStartText \o LinesOf(SelectSeq(events, IsAppendOk))

\* C14 witness: a run has ended in which two ids were discovered and both
\* were committed
C14_Witness ==
  /\ pc = "done" /\ Len(video_info_list) = 2
  /\ IdsOf(SelectSeq(events, IsAppendOk)) = ListedIds

C16_NothingToDo ==
  (pc = "done" /\ video_info_list = << >>) =>
    /\ terminal.tag = "TASK_COMPLETE"
    /\ terminal.text = "No new videos processed"
    /\ events = << >> /\ processed_video_details = << >>
    /\ ledger_exists = run_start.exists /\ ledger_text = run_start.text

\* C16 witness: the page was scrolled, discovery returned nothing, and the
\* run has ended
C16_Witness ==
  /\ pc = "done" /\ video_info_list = << >>
  /\ scroll_i >= 1 /\ driver = "closed"

\* C17: the list discovery builds never holds more than num_videos_to_find
\* pairs, its ids are pairwise distinct, each pair is an id with the URL it
\* was taken from, and during the scan the list only grows at its end, one
\* pair at a time, so that its order is the order of first discovery.
C17_DiscoveryList ==
  /\ [](/\ Len(video_info_list) <= num_videos_to_find
        /\ \A j, k \in 1..Len(video_info_list) :
             j # k => video_info_list[j][1] # video_info_list[k][1]
        /\ \A k \in 1..Len(video_info_list) :
             get_video_id_from_url(video_info_list[k][2]) = video_info_list[k][1])
  /\ [][ (pc \in {"scroll", "scan"}) =>
            (/\ IsPrefix(video_info_list, video_info_list')
             /\ Len(video_info_list') <= Len(video_info_list) + 1) ]_vars

\* C17 witness: discovery has returned a full list of two after more than
\* one pass of the scroll loop
C17_Witness ==
  /\ pc = "download" /\ num_videos_to_find = 2
  /\ Len(video_info_list) = 2 /\ scroll_i >= 2

\* ---- the last stage call made for an item
TimedOut ==
  \/ last_stage.fetch = "timeout" \/ last_stage.verify = "timeout"
  \/ last_stage.probe = "timeout" \/ last_stage.encode = "timeout"
\* a tool failed in the call; the missing integrity probe, which
\* download_video lets pass, is not counted
ToolFailed ==
  \/ last_stage.fetch \in {"timeout", "failed", "missing"}
  \/ last_stage.verify \in {"bad", "timeout", "error"}
  \/ last_stage.probe \in {"nonzero", "unparsable", "timeout", "missing"}
  \/ last_stage.encode \in {"failed", "timeout"}

\* C18 as claimed: when yt-dlp, the integrity probe, the geometry probe or
\* ffmpeg runs into its timeout, the call returns None to the loop, which
\* goes on; the process that timed out is no longer running, and the item
\* is not committed (stated for calls whose os.remove does not raise).
C18_TimeoutFailsItemOnly ==
  (TimedOut /\ last_stage.rm_ok) =>
    /\ ~last_stage.raised
    /\ last_stage.ret = None
    /\ last_stage.alive = {}
    /\ ~last_stage.committed

\* C19 as claimed: whatever tool fails in download_video or edit_video
\* (non-zero exit, missing or empty output, timeout, tool not found), no
\* exception leaves the call and it returns None (stated for calls whose
\* os.remove does not raise).
C19_ToolFailureReturnsNone ==
  (ToolFailed /\ last_stage.rm_ok) =>
    (~last_stage.raised /\ last_stage.ret = None)

\* C20 as claimed: when edit_video returns None after it ran ffmpeg (exit
\* status not 0, output missing or empty, timeout), ffmpeg is no longer
\* running, no file is at the output path, and the id is not committed.
C20_FailedEncodeLeavesNoOutput ==
  (last_stage.encode \in {"failed", "timeout"} /\ ~last_stage.raised) =>
    /\ last_stage.ret = None
    /\ last_stage.alive = {}
    /\ last_stage.after = "absent"
    /\ ~last_stage.committed

\* C20 amended: after ffmpeg failed or timed out it is no longer running
\* and the id is not committed; edit_video removes the output file and
\* returns None, except when os.remove raises: then the file stays, and
\* the OSError is logged and None returned (ffmpeg failed) or leaves
\* edit_video as an exception (ffmpeg timed out).
C20_FailedEncodeCleansUp ==
  last_stage.encode \in {"failed", "timeout"} =>
    /\ last_stage.ret = None
    /\ last_stage.alive = {}
    /\ ~last_stage.committed
    /\ last_stage.ledger_after = last_stage.ledger_before
    /\ last_stage.rm_ok => (last_stage.after = "absent" /\ ~last_stage.raised)
    /\ ~last_stage.rm_ok =>
         /\ last_stage.after # "absent"
         /\ last_stage.raised <=> last_stage.encode = "timeout"

\* C20 witness: ffmpeg timed out over an output file of an earlier call,
\* and edit_video returned None with no file at the output path
C20_Witness ==
  /\ last_stage.encode = "timeout" /\ ~last_stage.raised
  /\ last_stage.before = "data" /\ last_stage.after = "absent"

\* ---- download_video after it ran yt-dlp
FetchRan == last_stage.stage = "download" /\ last_stage.fetch \in {"ok", "failed", "timeout"}

\* C21 as claimed: whenever download_video returns None after it ran
\* yt-dlp (non-zero exit, missing or empty output, fetch timeout, integrity
\* probe failure or timeout), no file is at videos/<id>.mp4 afterwards.
C21_FailedDownloadLeavesNoFile ==
  (FetchRan /\ last_stage.ret = None) => last_stage.after = "absent"

\* C21 amended: whenever download_video returns None after it ran yt-dlp,
\* no file is at videos/<id>.mp4 afterwards unless the os.remove of the
\* clean-up raised: then the OSError is logged, None is still returned and
\* the file stays.
C21_FailedDownloadCleansUp ==
  (FetchRan /\ last_stage.ret = None) =>
    /\ ~last_stage.raised
    /\ last_stage.rm_ok => last_stage.after = "absent"
    /\ ~last_stage.rm_ok => last_stage.after # "absent"

\* C21 witness: the integrity probe rejected a downloaded file, and
\* download_video returned None with no file at the destination
C21_Witness ==
  /\ FetchRan /\ last_stage.ret = None
  /\ last_stage.fetch = "ok" /\ last_stage.verify = "bad"
  /\ last_stage.after = "absent"

\* ---- the downloaded file across edit_video
\* C22 as claimed: when edit_video fails for an item its downloaded file
\* is deleted; when it succeeds the downloaded file is kept.
C22_FailedEditDeletesInput ==
  last_stage.stage = "edit" =>
    /\ last_stage.ret = None => last_stage.input_after = "absent"
    /\ last_stage.ret # None => last_stage.input_after = last_stage.input

\* C22 amended: the downloaded file is kept whether edit_video succeeds,
\* returns None or raises: neither edit_video nor the edit loop removes it.
C22_EditKeepsInput ==
  last_stage.stage = "edit" =>
    /\ last_stage.input_after = last_stage.input
    /\ last_stage.input # "absent"

\* C22 witness: ffmpeg failed, edit_video returned None, and the downloaded
\* file is still there
C22_Witness ==
  /\ last_stage.stage = "edit" /\ last_stage.encode = "failed"
  /\ last_stage.ret = None /\ last_stage.input_after = "data"

\* C23: for every id the output path of edit_video differs from the path
\* download_video wrote (of that id and of any other), and an edit_video
\* call, with whatever it writes and removes, changes the file at its
\* output path only: every downloaded file is afterwards what it was.
C23_EditNeverTouchesSource ==
  /\ \A a, b \in VideoIds : output_video_path(a) # filepath(b)
  /\ [][ (last_stage'.stage = "edit" /\ last_stage' # last_stage) =>
            /\ videos' = videos
            /\ \A id \in VideoIds : id # last_stage'.id => edited'[id] = edited[id] ]_vars

\* C23 witness: an edit_video call removed the output file of an earlier
\* call while the downloaded file stayed
C23_Witness ==
  /\ last_stage.stage = "edit" /\ last_stage.before = "data"
  /\ last_stage.after = "absent" /\ last_stage.input_after = "data"

\* ---- a ledger append that failed
\* number of edit_video calls among the first k entries of the history
EditsUpTo(k) == Cardinality({ j \in EventIdx("edit", {"ok", "failed", "raised"}) : j <= k })

\* C24: an add_processed_video call that fails after a successful edit
\* adds nothing to the ledger and does not end the run: the edit loop goes
\* on to the next downloaded item, or, after the last one, to the aggregate
\* TASK_COMPLETE message; the id stays out of the ledger (where the run did
\* not find it there), so that a later run can discover it again.
C24_AppendFailureNotFatal ==
  \A k \in EventIdx("append", {"failed"}) :
    /\ Line(events[k].id) \in LedgerIds(ledger_exists, ledger_text)
         => Line(events[k].id) \in RunStartIds
    /\ ledger_text = RunStartText \o LinesOf(SelectSeq(events, IsAppendOk))
    /\ k < Len(events) =>
         /\ events[k + 1].ev = "edit"
         /\ events[k + 1].id = processed_video_details[EditsUpTo(k) + 1]
    /\ k = Len(events) =>
         /\ pc \in {"edit", "done", "exited"}
         /\ pc = "edit" =>
              /\ edit_i = EditsUpTo(k) + 1
              /\ edit_i <= Len(processed_video_details)
         /\ pc = "done" =>
              /\ terminal.tag = "TASK_COMPLETE"
              /\ terminal.text = "Process finished"
              /\ (stop_event \/ EditsUpTo(k) = Len(processed_video_details))

\* C24 witness: a second run has discovered again an id whose edit
\* succeeded in the first run (its edited file is on disk) but whose append
\* failed: the ledger does not hold it and no ledger read failed
C24_Witness ==
  /\ run_count = 2 /\ pc = "download" /\ failopen = {}
  /\ \E id \in VideoIds :
       /\ Listed(id) /\ edited[id] = "data"
       /\ Line(id) \notin LedgerIds(ledger_exists, ledger_text)

\* C25: when ffprobe is not on PATH at the integrity check, download_video
\* returns the path of the file yt-dlp wrote and keeps the file, and the
\* download loop keeps the item for the edit loop.
C25_MissingVerifierPasses ==
  (last_stage.stage = "download" /\ last_stage.verify = "missing") =>
    /\ last_stage.fetch = "ok"
    /\ last_stage.ret = last_stage.id
    /\ last_stage.after = "data" /\ videos[last_stage.id] = "data"
    /\ processed_video_details = << last_stage.id >>

\* C25 witness: yt-dlp wrote the file, ffprobe is missing, and the item is
\* in the list for the edit loop
C25_Witness ==
  /\ ~ffprobe_installed
  /\ last_stage.stage = "download" /\ last_stage.verify = "missing"
  /\ last_stage.id \in Range(processed_video_details)

\* C26: when setup_driver returns None the scrape returns [] and the run
\* ends with "No new videos processed": without a driver the worker never
\* gets to the navigation, the scroll loop, the download loop or the edit
\* loop, and no download_video, edit_video or ledger append is made.
C26_NoDriverNothingAttempted ==
  driver = "none" =>
    /\ pc \in {"idle", "setup", "done", "exited"}
    /\ scroll_i = 0 /\ video_info_list = << >>
    /\ events = << >> /\ processed_video_details = << >>
    /\ ledger_exists = run_start.exists /\ ledger_text = run_start.text
    /\ pc = "done" => terminal = NoNewVideos

\* C26 witness: a run over a ledger that holds an id has ended because
\* the driver could not be set up
C26_Witness ==
  /\ pc = "done" /\ driver = "none"
  /\ run_count = 2 /\ RunStartIds # {}
  /\ terminal = NoNewVideos

\* ---- the queue between worker and window
\* C27: the items process_log_queue has handled, followed by the items
\* still in the queue, are at every moment the items put, in the order of
\* the puts: none is handled out of order, skipped or handled twice, the
\* closing line put after a terminal message included; and while the
\* window exists the queue is emptied again and again, so that every item
\* put is handled in the end.
C27_QueueIsFifo ==
  /\ [](emitted = handled \o log_queue)
  /\ []<>(log_queue = << >> \/ ~gui_alive)

\* C27 witness: the closing line a worker put after its terminal message
\* has been handled, in a later poll than the terminal message, after the
\* items put before them
C27_Witness ==
  \E k \in 2..(Len(handled) - 1) :
    /\ IsTerminal(handled[k]) /\ handled[k + 1] = WorkerFinished
    /\ handled[k - 1] \in ProgressItems
    /\ handled = SubSeq(emitted, 1, Len(handled))

\* C28: download_video returns the path exactly when yt-dlp ended in time
\* with exit status 0, the file at the destination exists with size > 0,
\* and the integrity probe printed a codec with exit status 0 or ffprobe is
\* not on PATH; the file is then in place.  In every other case (the id
\* already in the ledger and yt-dlp missing included) it returns None.
C28_DownloadReturnsPathIff ==
  last_stage.stage = "download" =>
    /\ last_stage.ret \in {None, last_stage.id}
    /\ last_stage.ret # None <=>
         /\ last_stage.fo.rc = 0 /\ ~last_stage.fo.timeout
         /\ last_stage.fo.file = "data"
         /\ (last_stage.vo = "ok" \/ ~ffprobe_installed)
    /\ last_stage.ret # None => last_stage.after = "data"

\* C28 witness: yt-dlp exited 0 and left a file with content, the
\* integrity probe failed, and download_video returned None
C28_Witness ==
  /\ last_stage.stage = "download" /\ ffprobe_installed
  /\ last_stage.fo.rc = 0 /\ last_stage.fo.file = "data"
  /\ last_stage.vo \in {"bad", "timeout", "error"}
  /\ last_stage.ret = None

\* ---- the filter chain
CropStages == { k \in 1..Len(vf) : vf[k].name = "crop" }
\* floor(n * percent / 100)
FloorPercent(n, percent) == (n * percent) \div 100

\* C29 as claimed: whenever a crop stage is emitted it is
\* crop=out_w:out_h:cut_w:cut_h with cut_w = floor(width*crop_percent/100),
\* cut_h = floor(height*crop_percent/100), out_w and out_h the even-rounded
\* width - 2*cut_w and height - 2*cut_h.
C29_CropArithmetic ==
  \A k \in CropStages :
    LET cut_w == FloorPercent(original_width, edits.crop_percent)
        cut_h == FloorPercent(original_height, edits.crop_percent)
    IN vf[k].args = << EvenDown(original_width - 2 * cut_w),
                       EvenDown(original_height - 2 * cut_h), cut_w, cut_h >>

\* C30: the chain holds a crop stage exactly when 0 < crop_percent < 50
\* and the two even-rounded output sizes edit_video computed are > 0; in
\* every case the chain is built (no item is failed for its crop values):
\* hflip when mirror is set, then the crop stage if there is one.
C30_CropStageIff ==
  vf_built =>
    LET out_w == EvenDown(original_width
                          - 2 * crop_each_side(original_width, edits.crop_percent))
        out_h == EvenDown(original_height
                          - 2 * crop_each_side(original_height, edits.crop_percent))
        wanted == edits.crop_percent > 0 /\ edits.crop_percent < 50
        flip == IF edits.mirror THEN << Filter("hflip", << >>) >> ELSE << >>
    IN /\ CropStages # {} <=> (wanted /\ out_w > 0 /\ out_h > 0)
       /\ Cardinality(CropStages) <= 1
       /\ SubSeq(vf, 1, Len(flip)) = flip
       /\ Len(vf) = Len(flip) + Cardinality(CropStages)

\* C30 witness: a crop was asked for within the range, one output size
\* came out as 0, and the chain is hflip alone
C30_Witness ==
  /\ vf_built /\ edits.mirror
  /\ edits.crop_percent > 0 /\ edits.crop_percent < 50
  /\ original_height = 1 /\ original_width > 2
  /\ vf = << Filter("hflip", << >>) >>

\* C31: every crop stage given to ffmpeg has an even out_w and an even
\* out_h: with cut_w, cut_h the offsets of the stage, an odd
\* width - 2*cut_w (height - 2*cut_h) is used less exactly 1 and an even
\* one is used as it is.
C31_EvenDimensions ==
  \A k \in CropStages :
    LET raw_w == original_width - 2 * vf[k].args[3]
        raw_h == original_height - 2 * vf[k].args[4]
    IN /\ vf[k].args[1] % 2 = 0 /\ vf[k].args[2] % 2 = 0
       /\ vf[k].args[1] = IF raw_w % 2 = 0 THEN raw_w ELSE raw_w - 1
       /\ vf[k].args[2] = IF raw_h % 2 = 0 THEN raw_h ELSE raw_h - 1

\* C31 witness: width 999 at 2 % leaves 961, used as 960, next to an even
\* height left as it is
C31_Witness ==
  /\ vf_built /\ original_width = 999 /\ original_height = 1000
  /\ edits.crop_percent = 2
  /\ \E k \in CropStages : vf[k].args = << 960, 960, 19, 20 >>

\* C37: every crop stage selects a window inside the source frame:
\* offset_x >= 0, offset_y >= 0, offset_x + out_w <= width and
\* offset_y + out_h <= height.
C37_CropWindowInsideFrame ==
  \A k \in CropStages :
    /\ vf[k].args[3] >= 0 /\ vf[k].args[4] >= 0
    /\ vf[k].args[3] + vf[k].args[1] <= original_width
    /\ vf[k].args[4] + vf[k].args[2] <= original_height

\* C37 witness: a crop stage at the largest crop_percent in range, with a
\* window that ends inside the frame
C37_Witness ==
  /\ vf_built /\ edits.crop_percent = 49
  /\ original_width = 720 /\ original_height = 999
  /\ \E k \in CropStages :
       /\ vf[k].args[3] > 0
       /\ vf[k].args[3] + vf[k].args[1] < original_width
       /\ vf[k].args[4] + vf[k].args[2] < original_height

\* ---- no stage is tried again
\* the download_video calls of this run that got to yt-dlp for `id`, and
\* the edit_video calls of this run for `id` (each runs ffmpeg at most once)
FetchCalls(id) ==
  { k \in 1..Len(events) : /\ events[k].ev = "download" /\ events[k].id = id
                            /\ events[k].res \in {"ok", "failed"} }
TranscodeCalls(id) ==
  { k \in 1..Len(events) : events[k].ev = "edit" /\ events[k].id = id }

TranscodeCallsMade == { k \in 1..Len(events) : events[k].ev = "edit" }

\* C32: within one run, for every item discovery returned, yt-dlp is
\* started at most once and ffmpeg at most once, whether the call
\* succeeded, failed or timed out.
C32_NoRetryWithinRun ==
  \A id \in VideoIds :
    /\ Cardinality(FetchCalls(id)) <= 1
    /\ Cardinality(TranscodeCalls(id)) <= 1

\* C32 witness: a finished run over two items in which one download
\* failed and one edit failed, each tried once
C32_Witness ==
  /\ pc = "done" /\ Len(video_info_list) = 2
  /\ \E a, b \in VideoIds :
       /\ a # b
       /\ \E k \in FetchCalls(a) : events[k].res = "failed"
       /\ \E k \in TranscodeCalls(b) : events[k].res = "failed"

\* ---- the terminal message of a run
\* the terminal messages waiting in the queue
QueuedTerminals == { k \in 1..Len(log_queue) : IsTerminal(log_queue[k]) }
\* the worker of the current run has ended
RunEnded == pc \in {"done", "exited"}

\* C33 as claimed: every started run emits exactly one terminal message,
\* TASK_COMPLETE or TASK_FAILED: none while the worker is at work, one
\* once the worker has ended, on whichever path; and is_scraping goes back
\* to False only when that message is taken from the queue.
C33_ExactlyOneTerminal ==
  /\ Cardinality(QueuedTerminals) <= 1
  /\ (run_count > 0 /\ ~RunEnded) =>
       (~IsTerminal(terminal) /\ QueuedTerminals = {} /\ is_scraping)
  /\ RunEnded => IsTerminal(terminal)
  /\ (run_count > 0 /\ ~is_scraping) =>
       (IsTerminal(terminal) /\ QueuedTerminals = {})
  /\ (RunEnded /\ is_scraping /\ IsTerminal(terminal)) =>
       (QueuedTerminals # {} /\ log_queue[Len(log_queue)] = terminal)

\* ---- one run at a time
\* a press of the start button with valid input
StartRequest == StartScraping(1) \/ StartRefused
\* the worker of the current run is between its start and its terminal
\* message
InPipeline == pc \notin {"idle", "done", "exited"}
HandledTerminals == { k \in 1..Len(handled) : IsTerminal(handled[k]) }

\* C34: at most one run is in its pipeline at any time.  A start request
\* made while is_scraping is True starts no worker and leaves stop_event,
\* the progress bar, the ledger and the worker's state as they are; a start
\* request that starts a worker is made when no run is in its pipeline and
\* the terminal message of every earlier run has been handled.
C34_OneRunAtATime ==
  [][ StartRequest =>
        IF is_scraping
        THEN /\ request' = "refused"
             /\ UNCHANGED << worker_vars, is_scraping, stop_event, progress_bar,
                             ledger_vars, log_queue >>
        ELSE /\ request' = "started" /\ run_count' = run_count + 1
             /\ ~InPipeline /\ pc' = "setup"
             /\ QueuedTerminals = {}
             /\ Cardinality(HandledTerminals) = run_count ]_vars

\* C34 witness: the first run's terminal message was handled, a second
\* run was started while the first worker had not yet left its finally
\* clause, and a further press of the button was refused
C34_Witness ==
  /\ request = "refused" /\ is_scraping /\ InPipeline
  /\ run_count = 2 /\ finishing = 1
  /\ Cardinality(HandledTerminals) = 1

\* ---- a run without ffprobe
\* C35: when ffprobe is not on PATH during a run, no id is committed to
\* the ledger in that run: download_video passes every file unverified,
\* every edit_video call returns None, and the run ends with every item
\* that got to the edit loop counted as failed.
C35_NoProbeNothingCommitted ==
  ~ffprobe_installed =>
    /\ \A k \in 1..Len(events) :
         /\ events[k].ev # "append"
         /\ events[k].ev = "edit" => events[k].res = "failed"
    /\ ledger_exists = run_start.exists /\ ledger_text = run_start.text
    /\ (pc = "done" /\ TranscodeCallsMade # {}) =>
         terminal = FinalMessage(0, Len(processed_video_details),
                                 Cardinality(TranscodeCallsMade))

\* C35 witness: without ffprobe two downloads were passed on unverified,
\* both edits failed, and the run ended with 0 of 2 edited
C35_Witness ==
  /\ ~ffprobe_installed /\ ytdlp_installed /\ ffmpeg_installed
  /\ pc = "done" /\ Len(processed_video_details) = 2
  /\ Cardinality(TranscodeCallsMade) = 2
  /\ terminal = FinalMessage(0, 2, 2)
  /\ \A id \in Range(processed_video_details) : videos[id] = "data"

\* ---- the browser session
SetupFailed == Msg("LOG", "Failed to setup WebDriver", "CRITICAL")
\* scrape_and_download_videos_by_hashtag has returned to scraping_worker
ScrapeReturned == pc \in {"edit", "done"}

\* C36: once setup_driver gave a driver, driver.quit() is called exactly
\* once before scrape_and_download_videos_by_hashtag returns, on every
\* path (no links, downloads done, an exception in discovery or in the
\* download loop): the session is open until the return, closed at the
\* return and from then on.
C36_DriverQuitOnce ==
  /\ [](ScrapeReturned =>
         IF \E k \in 1..Len(log_queue) : log_queue[k] = SetupFailed
         THEN driver = "none" ELSE driver = "closed")
  /\ []((pc \in {"navigate", "scroll", "scan", "download"}) => driver = "open")
  /\ [][ driver' # driver =>
           \/ pc = "idle" /\ driver' = "none"
           \/ pc = "setup" /\ driver = "none" /\ driver' = "open"
           \/ /\ driver = "open" /\ driver' = "closed"
              /\ ~ScrapeReturned /\ ScrapeReturned' ]_vars

\* C36 witness: an exception in the download loop after one download was
\* made: the browser is closed and the edit loop begins with that download
C36_Witness ==
  /\ pc = "edit" /\ driver = "closed"
  /\ Len(processed_video_details) = 1 /\ Len(video_info_list) = 2
  /\ log_queue # << >> /\ log_queue[Len(log_queue)] = ScrapeFailed

====
